---- MODULE Spec2Model ----
(***************************************************************************)
(* Geo-tiled discovery and website-verification pipeline                   *)
(* (app/api/run/route.ts, lib/db-businesses.ts, lib/mino-api.ts,           *)
(* lib/google-places.ts).                                                  *)
(*                                                                         *)
(* Three specifications share the variables below:                         *)
(*   SpecGov     processWithConcurrency alone, over abstract handlers      *)
(*   SpecResolve resolveHasWebsite step by step, against the cache         *)
(*   Spec        the POST stream: tile loop, adapters, dedup, governor,    *)
(*               events, cancellation, and the caller's resumption         *)
(* A JavaScript coroutine runs to completion between awaits, so one action *)
(* is the code from one await to the next.                                 *)
(***************************************************************************)
EXTENDS Integers, Sequences, FiniteSets, TLC

(* ------------------------------ bounds --------------------------------- *)
MaxItems == 4
MaxLimit == 3
MaxTileCount == 6
MaxIds == 2
MaxAdapterRecords == 1
MaxTileRecords == 2
MaxCursorHalves == 12
MaxRadiusKm == 9
MaxTileSizeKm == 4
MaxOverlapKm == 1
MaxBuilds == 2
MaxCoroutines == 2
MaxRequests == 3
MaxClock == 5500
MaxCacheCalls == 3
MaxBeats == 2
MaxBeatTiles == 2
MaxFullPages == 3
MaxPages == 6

(* ------------------------- program constants --------------------------- *)
\* route.ts:58  Math.max(5, Number(process.env.MAX_TILES_PER_REQUEST || 40)):
\* the smallest value the clamp admits
MAX_TILES_PER_REQUEST == 5
\* route.ts:62  Math.max(1, Number(process.env.WEBSITE_CHECK_CONCURRENCY || 4)),
\* configured to 2
WEBSITE_CHECK_CONCURRENCY == 2
\* route.ts:66  Math.max(0, Number(process.env.WEBSITE_CHECK_RETRIES || 2))
WEBSITE_CHECK_RETRIES == 2
\* route.ts:1158  nextTileIndex = ... : null
NoIndex == -1

NULL == "null"
TriState == {"true", "false", NULL}
\* a last_checked_at that is null
NoTime == -1

VARIABLES
  \* processWithConcurrency (route.ts:825-842)
  items,          \* the items argument (a sequence)
  limit,          \* the limit argument
  nextItem,       \* position of the for-of loop in items (1-based)
  executing,      \* the executing set: positions of the handlers in flight
  settled,        \* positions of the handlers that have settled (history)
  gpc,            \* where processWithConcurrency is
  \* POST stream (route.ts:1030-1181)
  spc,            \* "start" | "running" | "closed" (controller.close() done)
  tpc,            \* position inside the tile loop body
  stream,         \* the events enqueued on the controller, in order
  aborted,        \* request.signal.aborted
  minoApiKey,     \* process.env.MINO_API_KEY is set
  googleApiKey,   \* process.env.GOOGLE_PLACES_API_KEY is set
  tileCount,      \* tiles.length
  startIndex,
  endIndex,
  tileIdx,        \* absolute index of the tile the for-of loop is at
  tilesSearched,
  businessesFound,
  seenPlaceIds,
  tileBusinesses, \* the records fetched so far for the tile (dead after the filter)
  tileDropped,    \* history: records of the tile the dedup filter dropped
  resolverCalls,  \* history: place_id -> number of resolveHasWebsite calls
  resolvedFalse,  \* history: identities whose resolveHasWebsite returned false
  abortTile,      \* history: tile in process when the signal fired, or NoIndex
  tileLog,        \* history: tile indexes of the tile events of the whole run
  faulted,        \* history: a signal fired or an error event was emitted
  errorCause,     \* history: what raised the exception behind the error event
  stalled,        \* the external call awaited by the tile loop never answers
  returned,       \* history: the identities the adapters have returned
  \* resolveHasWebsite (route.ts:724-823) for one business
  rpc,            \* the await resolveHasWebsite is suspended in, or how it ended
  business,       \* the business argument: declared website, google_place_id
  cacheRow,       \* the rows of table businesses with the place_id of business
  cached,         \* the local cached: what getBusinessFromCache returned
  hasWebsite,     \* the local hasWebsite of step 3 / step 5
  attempt,        \* the loop counter of step 5
  calls,          \* history: the awaited external calls, in order
  answers,        \* history: what each checkBusinessWebsite call answered
  failed,         \* history: the kinds of awaited calls that have failed
  providerWebsite, \* history: the website field of the details record fetched
  result,         \* what resolveHasWebsite returned, or "pending"
  \* POST before the stream is constructed (route.ts:844-1028)
  ppc,            \* "body" | "extract" | "geocode" | "returned"
  prompt,         \* body.prompt: "missing" | "nonstring" | "text"
  startTileIndex, \* body.startTileIndex, as sent by the caller
  response,       \* what POST returned: "none", an error response, "stream"
  \* buildTiles (route.ts:125-167), lengths in km
  radiusKm,
  tileSizeKm,
  overlapKm,
  tiles,          \* the list the last buildTiles call returned
  prevTiles,      \* history: the list the call before it returned
  builds,         \* history: number of buildTiles calls
  probe,          \* a point of the plane, or NoPoint
  \* the rate limiter of one adapter (route.ts:290-302), times in ms
  clock,          \* Date.now()
  lastRequestAt,  \* the module-level lastNominatimRequestAt
  lpc,            \* per coroutine: "idle" | "sleeping" | "fetching"
  wakeAt,         \* per coroutine: when its sleep(waitMs) is due
  requests,       \* history: the times at which requests were issued
  \* table businesses and the calls of db-businesses.ts in flight
  table,          \* place_id -> the rows of table businesses with it
  resolving,      \* per coroutine: the place_id of the business it resolves
  dpc,            \* per coroutine: "idle" | "read" | "update" | "insert" |
                  \*                "ok" | "threw"
  dbOp,           \* per coroutine: the call in flight and what it writes
  dbCalls,        \* history: the number of calls made
  \* the heartbeat of the stream (route.ts:1041-1043, 1177)
  timer,          \* the interval timer: "none" | "armed" | "cleared"
  beats,          \* history: the heartbeat events of the stream, each with
                  \* the number of other events enqueued before it
  \* fetchBusinessesForTile (route.ts:675-722)
  pgc,            \* "idle" | "loop" | "returned"
  provider,       \* the pages the provider holds for the query, in order
  offset,
  results,
  offsets,        \* history: the offsets of the requests made
  \* the answers of the outside world when they are fixed beforehand
  outcomeOf       \* place_id -> what resolveHasWebsite hands back for it

govVars == <<items, limit, nextItem, executing, settled, gpc>>
streamVars == <<spc, tpc, stream, aborted, minoApiKey, googleApiKey, tileCount,
                startIndex, endIndex, tileIdx, tilesSearched, businessesFound,
                seenPlaceIds, tileBusinesses, tileDropped, resolverCalls,
                resolvedFalse, abortTile, tileLog, faulted, errorCause,
                stalled, returned>>
cfgVars == <<minoApiKey, googleApiKey, tileCount>>
invVars == <<startIndex, endIndex>>
tileVars == <<tileBusinesses, tileDropped, seenPlaceIds>>
countVars == <<tilesSearched, businessesFound>>
resolveVars == <<rpc, business, cacheRow, cached, hasWebsite, attempt, calls,
                 answers, failed, providerWebsite, result>>
postVars == <<ppc, prompt, startTileIndex, response>>
tilerVars == <<radiusKm, tileSizeKm, overlapKm, tiles, prevTiles, builds,
               probe>>
rateVars == <<clock, lastRequestAt, lpc, wakeAt, requests>>
cacheVars == <<table, resolving, dpc, dbOp, dbCalls>>
beatVars == <<timer, beats>>
pageVars == <<pgc, provider, offset, results, offsets>>
fixedVars == <<outcomeOf>>
lateVars == <<beatVars, pageVars, fixedVars>>
otherVars == <<postVars, tilerVars, rateVars, cacheVars, pageVars, fixedVars>>
auxVars == <<otherVars, beatVars>>
vars == <<govVars, streamVars, resolveVars, auxVars>>

Min(a, b) == IF a < b THEN a ELSE b
Max(a, b) == IF a > b THEN a ELSE b
Last(s) == s[Len(s)]

(***************************************************************************)
(* processWithConcurrency                                                  *)
(***************************************************************************)
\* gpc: "idle"          not called
\*      "race"          suspended in await Promise.race(executing)
\*      "raceFulfilled" the race has settled (fulfilled), continuation pending
\*      "raceRejected"  the race has settled (rejected), continuation pending
\*      "settle"        suspended in await Promise.allSettled(executing)
\*      "returned"      returned normally
\*      "thrown"        left by the rejection of the awaited race
\* The for-of loop itself runs synchronously from one await to the next, so
\* it is never observed between two of its iterations.
Suspended == {"race", "raceFulfilled", "raceRejected", "settle", "thrown"}

ShouldWaitOffByOne(size, lim) == size > lim
\* route.ts:836  if (executing.size >= limit)
ShouldWait(size, lim) == size >= lim

\* route.ts:832-841  the loop from item `next` on, up to its next await:
\* start the handler, add the task, and suspend in the race when the window
\* is full, or in allSettled when the items are exhausted
RECURSIVE RunLoop(_, _, _, _)
RunLoop(next, exec, n, lim) ==
  IF next > n
  THEN [nextItem |-> next, executing |-> exec, gpc |-> "settle"]
  ELSE IF ShouldWait(Cardinality(exec \cup {next}), lim)
       THEN [nextItem |-> next + 1, executing |-> exec \cup {next},
             gpc |-> "race"]
       ELSE RunLoop(next + 1, exec \cup {next}, n, lim)

AfterSettleBarrier(pc, ok, remaining) ==
  IF pc = "race"
  THEN IF remaining # {} THEN "race"
       ELSE IF ok THEN "raceFulfilled" ELSE "raceRejected"
  ELSE pc
\* Promise.race settles as the first handler to settle does; allSettled
\* ignores how they settle
AfterSettle(pc, ok, remaining) ==
  IF pc = "race" THEN (IF ok THEN "raceFulfilled" ELSE "raceRejected") ELSE pc

\* the call, up to its first await
GovStart(list, lim) ==
  LET r == RunLoop(1, {}, Len(list), lim)
  IN /\ items' = list
     /\ limit' = lim
     /\ nextItem' = r.nextItem
     /\ executing' = r.executing
     /\ settled' = {}
     /\ gpc' = r.gpc

\* handler i settles: .finally(() => executing.delete(task))
GovSettle(i, ok) ==
  /\ gpc \in Suspended
  /\ i \in executing
  /\ executing' = executing \ {i}
  /\ settled' = settled \cup {i}
  /\ gpc' = AfterSettle(gpc, ok, executing \ {i})
  /\ UNCHANGED <<items, limit, nextItem>>

\* the continuation of await Promise.race: the loop goes on, or the
\* rejection leaves processWithConcurrency
GovResume ==
  /\ gpc \in {"raceFulfilled", "raceRejected"}
  /\ LET r == RunLoop(nextItem, executing, Len(items), limit)
     IN IF gpc = "raceFulfilled"
        THEN /\ nextItem' = r.nextItem
             /\ executing' = r.executing
             /\ gpc' = r.gpc
        ELSE /\ gpc' = "thrown"
             /\ UNCHANGED <<nextItem, executing>>
  /\ UNCHANGED <<items, limit, settled>>

AllSettledEarly(exec) == TRUE
\* route.ts:841  await Promise.allSettled(executing) resolves once every
\* task of the set has settled
AllSettled(exec) == exec = {}

\* allSettled resolves once nothing is in flight
GovReturn ==
  /\ gpc = "settle"
  /\ AllSettled(executing)
  /\ gpc' = "returned"
  /\ UNCHANGED <<items, limit, nextItem, executing, settled>>

(***************************************************************************)
(* POST: the stream                                                        *)
(***************************************************************************)
Ids == 1..MaxIds

Range(s) == {s[i] : i \in 1..Len(s)}

\* what one Source Adapter call can return for a tile: a list of identities
AdapterResults ==
  UNION {[1..n -> Ids] : n \in 0..MaxAdapterRecords}

\* route.ts:1020-1023  (the cursor is an integer here)
StartIndexOf(cursor, n) == Min(Max(0, cursor), Max(n - 1, 0))
\* route.ts:1024
EndIndexOf(start, n) == Min(start + MAX_TILES_PER_REQUEST, n)

NextTileIndexRepeatsOne(endIdx, n) ==
  IF endIdx < n THEN endIdx - 1 ELSE NoIndex
\* route.ts:1158
NextTileIndexOf(endIdx, n) == IF endIdx < n THEN endIdx ELSE NoIndex

EvMetadata == [type |-> "metadata", tileCount |-> tileCount,
               startTileIndex |-> startIndex]
EvTile(k) == [type |-> "tile", index |-> k]
EvBusiness(id) == [type |-> "business", id |-> id]
TilesSearchedInBatch(start, searched) == searched
\* route.ts:1150, 1161  tilesSearched: startIndex + tilesSearched
TilesSearchedOf(start, searched) == start + searched

EvProgress(searched, found, seen) ==
  [type |-> "progress", tilesSearched |-> TilesSearchedOf(startIndex, searched),
   totalTiles |-> tileCount, businessesFound |-> found,
   uniqueBusinesses |-> Cardinality(seen)]
\* route.ts:1158-1167
EvDone(searched) ==
  [type |-> "done", totalFound |-> businessesFound,
   tilesSearched |-> TilesSearchedOf(startIndex, searched),
   totalTiles |-> tileCount,
   uniqueBusinesses |-> Cardinality(seenPlaceIds),
   hasMore |-> (endIndex < tileCount),
   nextTileIndex |-> NextTileIndexOf(endIndex, tileCount)]
EvError == [type |-> "error"]

RECURSIVE DedupNoSeen(_, _)
DedupNoSeen(list, seen) ==
  IF list = <<>> THEN <<>>
  ELSE <<Head(list)>> \o DedupNoSeen(Tail(list), seen)
\* route.ts:1119-1125  tileBusinesses.filter(...) against seenPlaceIds
RECURSIVE DedupList(_, _)
DedupList(list, seen) ==
  IF list = <<>> THEN <<>>
  ELSE IF Head(list) \in seen
       THEN DedupList(Tail(list), seen)
       ELSE <<Head(list)>> \o DedupList(Tail(list), seen \cup {Head(list)})

\* what resolveHasWebsite can hand to its caller: a tri-state, or an exception
\* (only the places lookups of google-places.ts:39-45 can raise)
ResolveOutcomes ==
  {"true", "false", NULL} \cup (IF googleApiKey THEN {"throw"} ELSE {})

EnqueueAlways(state) == TRUE
\* controller.enqueue raises once controller.close() has run
EnqueueAllowed(state) == state # "closed"

\* the stream has no heartbeat timer (yet)
BeatIdle == timer = "none" /\ beats = <<>>

ClearIntervalSkipped(t) == t
\* route.ts:1177  clearInterval(heartbeat)
ClearInterval(t) == "cleared"

\* the for-of loop head (route.ts:1075-1083) for the tile at idx, reached
\* with the events evs already enqueued; when the batch is over or the
\* signal has fired, the done event and the finally block (route.ts:1158-1179)
LoopTop(evs, idx, searched) ==
  IF idx < endIndex /\ ~aborted
  THEN /\ stream' = Append(evs, EvTile(idx))
       /\ tileLog' = Append(tileLog, idx)
       /\ spc' = "running"
       /\ tpc' = "nominatim"
       /\ tileIdx' = idx
       /\ timer' = "armed"
  ELSE /\ stream' = Append(evs, EvDone(searched))
       /\ spc' = "closed"
       /\ tpc' = "none"
       /\ timer' = ClearInterval("armed")
       /\ UNCHANGED <<tileLog, tileIdx>>

\* route.ts:1168-1179  catch: the error event; finally: close
CatchAndClose ==
  /\ stream' = Append(stream, EvError)
  /\ spc' = "closed"
  /\ tpc' = "none"
  /\ timer' = ClearInterval(timer)
  /\ faulted' = TRUE

NoVerificationPathEither(mino, google) == ~mino \/ ~google
\* route.ts:1066  if (!minoApiKey && !googleApiKey)
NoVerificationPath(mino, google) == ~mino /\ ~google

\* start(controller): metadata, the credential check, the first loop head
StartStream ==
  /\ spc = "start"
  /\ IF NoVerificationPath(minoApiKey, googleApiKey)
     THEN /\ stream' = <<EvMetadata, EvError>>
          /\ spc' = "closed"
          /\ tpc' = "none"
          /\ faulted' = TRUE
          /\ errorCause' = "credentials"
          /\ timer' = ClearInterval("armed")
          /\ UNCHANGED <<tileLog, tileIdx>>
     ELSE /\ LoopTop(<<EvMetadata>>, startIndex, 0)
          /\ UNCHANGED <<faulted, errorCause>>
  /\ UNCHANGED <<otherVars, beats, resolveVars, govVars, cfgVars, returned, stalled, invVars, aborted,
                 abortTile, tileVars,
                 countVars, resolverCalls, resolvedFalse>>

\* the caller's cancellation signal fires
Abort ==
  /\ spc \in {"start", "running"}
  /\ ~aborted
  /\ aborted' = TRUE
  /\ faulted' = TRUE
  /\ abortTile' = IF spc = "running" THEN tileIdx ELSE NoIndex
  /\ UNCHANGED errorCause
  /\ UNCHANGED <<auxVars, resolveVars, govVars, cfgVars, returned, stalled, invVars, spc, tpc,
                 stream, tileIdx,
                 tileVars, countVars, resolverCalls, resolvedFalse, tileLog>>

\* route.ts:1041-1043  the interval callback: sendEvent("heartbeat", ...)
\* whenever the timer is due, whatever the tile loop is waiting for
Heartbeat ==
  /\ timer = "armed"
  /\ Len(beats) < MaxBeats
  /\ beats' = Append(beats, [after |-> Len(stream), open |-> EnqueueAllowed(spc),
                             pending |-> tpc])
  /\ UNCHANGED <<otherVars, timer, resolveVars, govVars, streamVars>>

\* resolveHasWebsite is called once by every handler the loop starts
LaunchCounts(list, launched) ==
  [id \in Ids |->
     resolverCalls[id] + Cardinality({i \in launched : list[i] = id})]

\* the dedup filter and the call of processWithConcurrency (route.ts:1119-1129)
StartResolving(list) ==
  LET unique == DedupList(list, seenPlaceIds)
  IN /\ tileBusinesses' = <<>>
     /\ tileDropped' = Len(list) - Len(unique)
     /\ seenPlaceIds' = seenPlaceIds \cup Range(list)
     /\ GovStart(unique, WEBSITE_CHECK_CONCURRENCY)
     /\ resolverCalls' = LaunchCounts(unique, executing')
     /\ tpc' = "resolve"

\* the awaited fetch settles: it answers unless it stalls, and a stalled
\* fetch is rejected only by the caller's signal, when it was given the signal
\* (route.ts:307-312, 336-345; photon-api.ts:78; google-places.ts:39-40)
Answers(givenSignal) == ~stalled \/ (givenSignal /\ aborted)

\* the records one more adapter call may add to those of the tile
MoreRecords ==
  {res \in AdapterResults : Len(tileBusinesses) + Len(res) <= MaxTileRecords}

\* fetchBusinessesForTile -> fetchNominatim (route.ts:293-319, 675-722):
\* the fetch is not guarded, so a rejected fetch (network failure, or the
\* signal) reaches the catch of the stream
AdapterNominatim ==
  /\ spc = "running" /\ tpc = "nominatim"
  /\ Answers(TRUE)
  /\ \/ /\ ~aborted
        /\ \E res \in MoreRecords :
             /\ tileBusinesses' = res
             /\ returned' = returned \cup Range(res)
        /\ tpc' = "overpass"
        /\ UNCHANGED <<spc, stream, timer, faulted, errorCause>>
     \/ /\ CatchAndClose
        /\ errorCause' = "adapter"
        /\ UNCHANGED <<tileBusinesses, returned>>
  /\ UNCHANGED <<otherVars, beats, resolveVars, govVars, cfgVars, stalled, invVars, aborted,
                 abortTile, tileIdx,
                 tileDropped, seenPlaceIds, countVars, resolverCalls,
                 resolvedFalse, tileLog>>

\* fetchBusinessesFromOverpass -> fetchOverpass (route.ts:321-359, 550-567):
\* every failure is caught and gives the empty list
AdapterOverpass ==
  /\ spc = "running" /\ tpc = "overpass"
  /\ Answers(TRUE)
  /\ \E res \in (IF aborted THEN {<<>>} ELSE MoreRecords) :
       /\ tileBusinesses' = tileBusinesses \o res
       /\ returned' = returned \cup Range(res)
  /\ tpc' = "photon"
  /\ UNCHANGED <<auxVars, resolveVars, govVars, cfgVars, stalled, invVars, spc, stream,
                 aborted, abortTile,
                 tileIdx, tileDropped, seenPlaceIds, countVars, resolverCalls,
                 resolvedFalse, tileLog, faulted, errorCause>>

\* fetchBusinessesFromPhoton -> searchPhotonPlaces (photon-api.ts:56-108):
\* unguarded fetch, as for Nominatim
AdapterPhoton ==
  /\ spc = "running" /\ tpc = "photon"
  /\ Answers(TRUE)
  /\ \/ /\ ~aborted
        /\ \E res \in MoreRecords :
             /\ returned' = returned \cup Range(res)
             /\ IF googleApiKey
                THEN /\ tileBusinesses' = tileBusinesses \o res
                     /\ tpc' = "google"
                     /\ UNCHANGED <<govVars, seenPlaceIds, tileDropped,
                                    resolverCalls>>
                ELSE StartResolving(tileBusinesses \o res)
        /\ UNCHANGED <<spc, stream, timer, faulted, errorCause>>
     \/ /\ CatchAndClose
        /\ errorCause' = "adapter"
        /\ UNCHANGED <<govVars, tileVars, resolverCalls, returned>>
  /\ UNCHANGED <<otherVars, beats, resolveVars, cfgVars, stalled, invVars, aborted, abortTile,
                 tileIdx,
                 countVars, resolvedFalse, tileLog>>

\* fetchBusinessesFromGooglePlaces (route.ts:600-638): empty when the signal
\* has fired; fetchGoogleJson (google-places.ts:39-45) does not guard fetch
AdapterGoogle ==
  /\ spc = "running" /\ tpc = "google"
  /\ Answers(FALSE)
  /\ \/ /\ \E res \in (IF aborted THEN {<<>>} ELSE MoreRecords) :
             /\ StartResolving(tileBusinesses \o res)
             /\ returned' = returned \cup Range(res)
        /\ UNCHANGED <<spc, stream, timer, faulted, errorCause>>
     \/ /\ ~aborted
        /\ CatchAndClose
        /\ errorCause' = "adapter"
        /\ UNCHANGED <<govVars, tileVars, resolverCalls, returned>>
  /\ UNCHANGED <<otherVars, beats, resolveVars, cfgVars, stalled, invVars, aborted, abortTile,
                 tileIdx,
                 countVars, resolvedFalse, tileLog>>

\* route.ts:1137  if (hasWebsite === false)
Emits(outcome) == outcome = "false"

CountFoundAlways(found, outcome) == found + 1
\* route.ts:1137-1138  if (hasWebsite === false) businessesFound += 1
CountFound(found, outcome) ==
  IF Emits(outcome) THEN found + 1 ELSE found

SendBusinessAtTileEnd(evs, id) == evs
\* route.ts:1137-1144  the handler enqueues the business event itself, in
\* the continuation of its own resolveHasWebsite
SendBusiness(evs, id) == Append(evs, EvBusiness(id))

\* the handler of route.ts:1130-1145 from the return of resolveHasWebsite on
HandlerReturns(i, outcome) ==
  LET id == items[i]
      emits == Emits(outcome) /\ EnqueueAllowed(spc)
      ok == outcome # "throw" /\ (outcome = "false" => EnqueueAllowed(spc))
  IN /\ GovSettle(i, ok)
     /\ resolvedFalse' =
          IF outcome = "false" THEN resolvedFalse \cup {id} ELSE resolvedFalse
     /\ businessesFound' = CountFound(businessesFound, outcome)
     /\ stream' = IF emits THEN SendBusiness(stream, id) ELSE stream
     /\ UNCHANGED <<auxVars, resolveVars, cfgVars, returned, stalled, invVars,
                    spc, tpc, aborted, abortTile, tileIdx, tileVars,
                    tilesSearched, resolverCalls, tileLog, faulted,
                    errorCause>>

\* a handler in flight is resumed, with whatever its resolveHasWebsite gives
ResolverSettles ==
  \E i \in executing, outcome \in ResolveOutcomes : HandlerReturns(i, outcome)

\* the same when the answer for every identity is fixed beforehand
ResolverSettlesFixed ==
  \E i \in executing : HandlerReturns(i, outcomeOf[items[i]])

\* the continuation of the awaited race, or allSettled resolving
GovernorStep ==
  /\ tpc = "resolve"
  /\ (GovResume \/ GovReturn)
  /\ resolverCalls' = LaunchCounts(items, executing' \ executing)
  /\ UNCHANGED <<auxVars, resolveVars, cfgVars, returned, stalled, invVars, spc, tpc, stream,
                 aborted,
                 abortTile, tileIdx, tileVars, countVars, resolvedFalse, tileLog,
                 faulted, errorCause>>

\* route.ts:1148-1156, then the next loop head
TileComplete ==
  /\ spc = "running" /\ tpc = "resolve"
  /\ gpc = "returned"
  /\ gpc' = "idle"
  /\ tilesSearched' = tilesSearched + 1
  /\ tileDropped' = 0
  /\ LoopTop(Append(stream, EvProgress(tilesSearched + 1, businessesFound,
                                       seenPlaceIds)),
             tileIdx + 1, tilesSearched + 1)
  /\ UNCHANGED <<otherVars, beats, resolveVars, items, limit, nextItem, executing, settled,
                 cfgVars, returned, stalled, invVars,
                 aborted, abortTile, tileBusinesses, seenPlaceIds,
                 businessesFound, resolverCalls, resolvedFalse, faulted, errorCause>>

\* processWithConcurrency has thrown: the catch of the stream
GovernorThrows ==
  /\ spc = "running" /\ tpc = "resolve"
  /\ gpc = "thrown"
  /\ CatchAndClose
  /\ errorCause' = "resolver"
  /\ UNCHANGED <<otherVars, beats, resolveVars, govVars, cfgVars, returned, stalled, invVars, aborted,
                 abortTile, tileIdx,
                 tileVars, countVars, resolverCalls, resolvedFalse, tileLog>>

\* a new invocation of POST for the same query (route.ts:1014-1048)
Invoke(cursor) ==
  /\ startIndex' = StartIndexOf(cursor, tileCount)
  /\ endIndex' = EndIndexOf(StartIndexOf(cursor, tileCount), tileCount)
  /\ tileIdx' = StartIndexOf(cursor, tileCount)
  /\ spc' = "start"
  /\ tpc' = "none"
  /\ stream' = <<>>
  /\ aborted' = FALSE
  /\ tilesSearched' = 0
  /\ businessesFound' = 0
  /\ seenPlaceIds' = {}
  /\ tileBusinesses' = <<>>
  /\ tileDropped' = 0
  /\ resolverCalls' = [id \in Ids |-> 0]
  /\ resolvedFalse' = {}
  /\ abortTile' = NoIndex
  /\ items' = <<>>
  /\ limit' = WEBSITE_CHECK_CONCURRENCY
  /\ nextItem' = 1
  /\ executing' = {}
  /\ settled' = {}
  /\ gpc' = "idle"
  /\ timer' = "none"
  /\ beats' = <<>>
  /\ returned' = {}

\* the caller re-invokes with the cursor of the done event
Resume ==
  /\ spc = "closed"
  /\ stream # <<>>
  /\ Last(stream).type = "done"
  /\ Last(stream).hasMore
  /\ Invoke(Last(stream).nextTileIndex)
  /\ UNCHANGED <<otherVars, resolveVars, cfgVars, stalled, tileLog, faulted, errorCause>>

(***************************************************************************)
(* buildTiles                                                              *)
(***************************************************************************)
\* Lengths are whole km. Coordinates are km east and north of the center
\* (kmToLatDegrees and kmToLngDegrees are the changes of unit), kept in
\* quarters of a km so that tileSizeKm / 2 and points strictly inside a tile
\* are integers.
QUARTERS == 4

\* radiusKm when Number(radiusKmRaw) is NaN: clamp (route.ts:122-123) hands
\* NaN through
NaNRadius == -1

NoPoint == <<>>

\* route.ts:131  Math.max(tileSizeKm - overlapKm, 1)
StepKm(tileSize, overlap) == Max(tileSize - overlap, 1)

\* route.ts:132  Math.ceil(radiusKm / stepKm)
Steps(radius, stepKm) == (radius + stepKm - 1) \div stepKm

\* route.ts:140-143  offsetKm > radiusKm + tileSizeKm / 2, both sides squared
\* and multiplied by 4
Skipped(x, y, radius, tileSize, stepKm) ==
  4 * (x * x + y * y) * stepKm * stepKm
    > (2 * radius + tileSize) * (2 * radius + tileSize)

\* route.ts:145-162  the tile pushed for the cell (x, y)
TileAt(index, x, y, tileSize, stepKm) ==
  [id |-> index, x |-> x, y |-> y,
   west |-> QUARTERS * x * stepKm - 2 * tileSize,
   east |-> QUARTERS * x * stepKm + 2 * tileSize,
   south |-> QUARTERS * y * stepKm - 2 * tileSize,
   north |-> QUARTERS * y * stepKm + 2 * tileSize]

FirstTileIndexCarried(previous) == Len(previous)
\* route.ts:137  let tileIndex = 0: a local of the call
FirstTileIndex(previous) == 0

\* route.ts:139-163  the inner loop of row y from column x on: row is what
\* it has pushed so far and tileIndex the value it started the row with
RECURSIVE SweepRow(_, _, _, _, _, _, _)
SweepRow(x, y, row, tileIndex, radius, tileSize, overlap) ==
  LET stepKm == StepKm(tileSize, overlap)
  IN IF x > Steps(radius, stepKm) THEN row
     ELSE IF Skipped(x, y, radius, tileSize, stepKm)
          THEN SweepRow(x + 1, y, row, tileIndex, radius, tileSize, overlap)
          ELSE SweepRow(x + 1, y,
                        Append(row, TileAt(tileIndex + Len(row), x, y,
                                           tileSize, stepKm)),
                        tileIndex, radius, tileSize, overlap)

\* route.ts:138-164  the outer loop from row y on, acc being the tiles pushed
\* by the rows before it
RECURSIVE SweepRows(_, _, _, _, _, _)
SweepRows(y, acc, first, radius, tileSize, overlap) ==
  LET steps == Steps(radius, StepKm(tileSize, overlap))
  IN IF y > steps THEN acc
     ELSE SweepRows(y + 1,
                    acc \o SweepRow(-steps, y, <<>>, first + Len(acc), radius,
                                    tileSize, overlap),
                    first, radius, tileSize, overlap)

\* route.ts:125-167  with a NaN radius steps is NaN and no loop body runs
buildTiles(previous, radius, tileSize, overlap) ==
  IF radius = NaNRadius THEN <<>>
  ELSE SweepRows(-Steps(radius, StepKm(tileSize, overlap)), <<>>,
                 FirstTileIndex(previous), radius, tileSize, overlap)

\* buildTiles is not being followed
TilerIdle ==
  /\ radiusKm = 1 /\ tileSizeKm = 1 /\ overlapKm = 0
  /\ tiles = <<>> /\ prevTiles = <<>> /\ builds = 0 /\ probe = NoPoint

\* no request is being followed before its stream
PostIdle ==
  /\ ppc = "returned" /\ prompt = "text" /\ startTileIndex = [kind |-> "absent"]
  /\ response = "none"

(***************************************************************************)
(* the rate limiter of an adapter                                          *)
(***************************************************************************)
\* route.ts:52-54  Number(process.env.NOMINATIM_RATE_LIMIT_MS || 1100)
NOMINATIM_RATE_LIMIT_MS == 1100

\* the clock is looked at every half spacing
TickMs == 550

\* the coroutines that call the adapter: the tile loops of the invocations
\* running in the process
Coroutines == 1..MaxCoroutines

\* route.ts:295-298  Math.max(0, LIMIT - (now - lastNominatimRequestAt))
WaitMs(now, last) == Max(0, NOMINATIM_RATE_LIMIT_MS - (now - last))

\* route.ts:293-304  fetchNominatim up to its first await: without a wait the
\* timestamp is written and fetch called at once, else the coroutine sleeps
RateCheck(c) ==
  /\ lpc[c] = "idle"
  /\ Len(requests) < MaxRequests
  /\ IF WaitMs(clock, lastRequestAt) > 0
     THEN /\ lpc' = [lpc EXCEPT ![c] = "sleeping"]
          /\ wakeAt' = [wakeAt EXCEPT ![c] = clock + WaitMs(clock, lastRequestAt)]
          /\ UNCHANGED <<lastRequestAt, requests>>
     ELSE /\ lpc' = [lpc EXCEPT ![c] = "fetching"]
          /\ lastRequestAt' = clock
          /\ requests' = Append(requests, clock)
          /\ UNCHANGED wakeAt
  /\ UNCHANGED <<clock, postVars, tilerVars, cacheVars, lateVars, govVars, streamVars, resolveVars>>

\* route.ts:299-304  the sleep is over: the timestamp is written and fetch
\* called
RateWake(c) ==
  /\ lpc[c] = "sleeping"
  /\ clock >= wakeAt[c]
  /\ lpc' = [lpc EXCEPT ![c] = "fetching"]
  /\ lastRequestAt' = clock
  /\ requests' = Append(requests, clock)
  /\ UNCHANGED <<clock, wakeAt, postVars, tilerVars, cacheVars, lateVars, govVars, streamVars,
                 resolveVars>>

\* route.ts:304-319  the response arrives and fetchNominatim returns
RateFetchSettles(c) ==
  /\ lpc[c] = "fetching"
  /\ lpc' = [lpc EXCEPT ![c] = "idle"]
  /\ UNCHANGED <<clock, lastRequestAt, wakeAt, requests, postVars, tilerVars, cacheVars, lateVars,
                 govVars, streamVars, resolveVars>>

\* time passes
Tick ==
  /\ clock < MaxClock
  /\ clock' = clock + TickMs
  /\ UNCHANGED <<lastRequestAt, lpc, wakeAt, requests, postVars, tilerVars, cacheVars, lateVars,
                 govVars, streamVars, resolveVars>>

\* no adapter is being called
RateIdle ==
  /\ clock = 0 /\ lastRequestAt = 0 /\ requests = <<>>
  /\ lpc = <<>> /\ wakeAt = <<>>

(***************************************************************************)
(* table businesses and the functions of db-businesses.ts, call by call    *)
(***************************************************************************)
\* the calls resolveHasWebsite makes that write (route.ts:737, 760, 784, 814)
CacheOps == {"upsert", "update"}

NoOp == [op |-> "none", has_website |-> NULL, stamp |-> NoTime]

UpdateRowsEverywhere(tbl, placeId, v, stamp) ==
  [p \in DOMAIN tbl |->
     {[has_website |-> v, last_checked_at |-> stamp] : r \in tbl[p]}]
\* db-businesses.ts:179-182  .update(updates).eq("place_id", placeId)
UpdateRows(tbl, placeId, v, stamp) ==
  [p \in DOMAIN tbl |->
     IF p = placeId
     THEN {[has_website |-> v, last_checked_at |-> stamp] : r \in tbl[p]}
     ELSE tbl[p]]

\* db-businesses.ts:133  .insert(business)
InsertRow(tbl, placeId, v, stamp) ==
  [tbl EXCEPT ![placeId] = @ \cup {[has_website |-> v, last_checked_at |-> stamp]}]

\* place_id TEXT NOT NULL UNIQUE: an insert of a place_id the table has is
\* refused
UniqueViolation(tbl, placeId) == tbl[placeId] # {}

\* route.ts:737, 760, 814  updateBusiness(business.place_id, {has_website,
\* last_checked_at: new Date()}) is called, or route.ts:784 upsertBusiness,
\* which starts with getBusinessFromCache (db-businesses.ts:252)
CacheCall(c) ==
  /\ dpc[c] = "idle"
  /\ dbCalls < MaxCacheCalls
  /\ \E op \in CacheOps, v \in TriState :
       /\ dbOp' = [dbOp EXCEPT ![c] =
                     [op |-> op, has_website |-> v, stamp |-> clock]]
       /\ dpc' = [dpc EXCEPT ![c] = IF op = "upsert" THEN "read" ELSE "update"]
  /\ dbCalls' = dbCalls + 1
  /\ UNCHANGED <<table, resolving, postVars, tilerVars, rateVars, lateVars,
                 govVars,
                 streamVars, resolveVars>>

\* db-businesses.ts:252-270  the read returns: upsertBusiness goes on to the
\* update when a row was found, to the insert when none was
CacheRead(c) ==
  /\ dpc[c] = "read"
  /\ dpc' = [dpc EXCEPT ![c] =
               IF table[resolving[c]] # {} THEN "update" ELSE "insert"]
  /\ dbOp' = [dbOp EXCEPT ![c].stamp = clock]
  /\ UNCHANGED <<table, resolving, dbCalls, postVars, tilerVars, rateVars,
                 lateVars, govVars, streamVars, resolveVars>>

\* db-businesses.ts:158-192  the database runs the UPDATE
CacheUpdate(c) ==
  /\ dpc[c] = "update"
  /\ table' = UpdateRows(table, resolving[c], dbOp[c].has_website, dbOp[c].stamp)
  /\ dpc' = [dpc EXCEPT ![c] = "ok"]
  /\ UNCHANGED <<resolving, dbOp, dbCalls, postVars, tilerVars, rateVars,
                 lateVars, govVars, streamVars, resolveVars>>

\* db-businesses.ts:117-143  the database runs the INSERT, or refuses it and
\* insertBusiness throws, which upsertBusiness passes on (271-273)
CacheInsert(c) ==
  /\ dpc[c] = "insert"
  /\ IF UniqueViolation(table, resolving[c])
     THEN /\ dpc' = [dpc EXCEPT ![c] = "threw"]
          /\ UNCHANGED table
     ELSE /\ dpc' = [dpc EXCEPT ![c] = "ok"]
          /\ table' = InsertRow(table, resolving[c], dbOp[c].has_website,
                                dbOp[c].stamp)
  /\ UNCHANGED <<resolving, dbOp, dbCalls, postVars, tilerVars, rateVars,
                 lateVars, govVars, streamVars, resolveVars>>

\* the call is over and resolveHasWebsite goes on
CacheReturn(c) ==
  /\ dpc[c] \in {"ok", "threw"}
  /\ dpc' = [dpc EXCEPT ![c] = "idle"]
  /\ dbOp' = [dbOp EXCEPT ![c] = NoOp]
  /\ UNCHANGED <<table, resolving, dbCalls, postVars, tilerVars, rateVars,
                 lateVars, govVars, streamVars, resolveVars>>

\* no call of db-businesses.ts is modelled
CacheIdle ==
  /\ table = <<>> /\ resolving = <<>> /\ dpc = <<>> /\ dbOp = <<>>
  /\ dbCalls = 0

(***************************************************************************)
(* fetchBusinessesForTile                                                  *)
(***************************************************************************)
\* route.ts:57
MAX_PAGE_SIZE == 50

\* A record of a page is <<position, identified>>: its position in the
\* provider's result list and whether buildPlaceId (route.ts:361-370) gives
\* it a non-empty place_id. Which records of a page lack an identity:
IdentityPatterns == {"all", "none", "odd"}

Identified(pattern, position) ==
  CASE pattern = "all" -> TRUE
    [] pattern = "none" -> FALSE
    [] OTHER -> position % 2 = 1

\* the page of len records starting at position first
PageOf(first, len, pattern) ==
  [i \in 1..len |-> <<first + i - 1, Identified(pattern, first + i - 1)>>]

\* the answer to the request with `offset`: the provider's page, and nothing
\* past its last page
PageAt(pages, off) ==
  LET n == off \div MAX_PAGE_SIZE + 1
  IN IF n <= Len(pages) THEN pages[n] ELSE <<>>

HasPlaceId(r) == r[2]

\* route.ts:707-712  push every business with a place_id
SelectIdentified(data) ==
  LET kept == SelectSeq(data, HasPlaceId)
  IN [i \in 1..Len(kept) |-> kept[i][1]]

LastPageNever(len) == FALSE
\* route.ts:714  data.length < MAX_PAGE_SIZE
LastPage(len) == len < MAX_PAGE_SIZE

\* one turn of the while loop (route.ts:688-720): the request, the answer,
\* the two exits
FetchPage ==
  /\ pgc = "loop"
  /\ Len(offsets) < MaxPages
  /\ LET data == PageAt(provider, offset)
     IN /\ offsets' = Append(offsets, offset)
        /\ IF Len(data) = 0
           THEN /\ pgc' = "returned"
                /\ UNCHANGED <<results, offset>>
           ELSE /\ results' = results \o SelectIdentified(data)
                /\ IF LastPage(Len(data))
                   THEN pgc' = "returned" /\ UNCHANGED offset
                   ELSE pgc' = "loop" /\ offset' = offset + MAX_PAGE_SIZE
  /\ UNCHANGED <<provider, postVars, tilerVars, rateVars, cacheVars, beatVars,
                 fixedVars, govVars, streamVars, resolveVars>>

\* fetchBusinessesForTile is not running
PageIdle ==
  /\ pgc = "idle" /\ provider = <<>> /\ offset = 0 /\ results = <<>>
  /\ offsets = <<>>

(***************************************************************************)
(* POST before the stream                                                  *)
(***************************************************************************)
\* route.ts:86-88
DEFAULT_RADIUS_KM == 50
MIN_RADIUS_KM == 10
MAX_RADIUS_KM == 1000

\* body.radiusKm: absent, not a number, or a number of km
RadiusInputs ==
  {[kind |-> "absent"], [kind |-> "text"]}
    \cup {[kind |-> "number", km |-> r] : r \in {0, 3, MIN_RADIUS_KM, 30}}

\* route.ts:858-862  clamp(Number(radiusKmRaw || DEFAULT_RADIUS_KM), MIN, MAX):
\* 0 and an absent value give the default, NaN passes through the clamp
RadiusOf(raw) ==
  IF raw.kind = "text" THEN NaNRadius
  ELSE IF raw.kind = "absent" \/ raw.km = 0 THEN DEFAULT_RADIUS_KM
       ELSE Min(MAX_RADIUS_KM, Max(MIN_RADIUS_KM, raw.km))

\* body.startTileIndex: absent, null, a string that is not a number, or a
\* number given in halves (so that fractions occur)
StartTileIndexInputs ==
  {[kind |-> "absent"], [kind |-> "null"], [kind |-> "text"]}
    \cup {[kind |-> "number", halves |-> h] :
            h \in (-3..MaxCursorHalves) \cup {2000}}

NormalizedStartRounds(raw) ==
  IF raw.kind \in {"absent", "text"} THEN 0
  ELSE IF raw.kind = "null" THEN 0
       ELSE Max(0, (raw.halves + 1) \div 2)
\* route.ts:1020-1022  Number.isFinite(Number(x)) ?
\*   Math.max(0, Math.floor(Number(x))) : 0     (Number(null) is 0)
NormalizedStart(raw) ==
  IF raw.kind \in {"absent", "text"} THEN 0
  ELSE IF raw.kind = "null" THEN 0
       ELSE Max(0, raw.halves \div 2)

\* TILE_SIZE_KM and TILE_OVERLAP_KM as configured (route.ts:55-56)
PostTileSizes == {10, 20}

AfterExtractGoesOn(outcome) == "geocode"
\* route.ts:936-1002  every failed check returns its response
AfterExtract(outcome) == IF outcome = "ok" THEN "geocode" ELSE "returned"

\* route.ts:984-1002  what POST returns for each failed check
ExtractResponse(outcome) ==
  CASE outcome = "aiFailed" -> "500 AI processing failed"
    [] outcome = "badStructure" -> "500 Invalid data structure from AI"
    [] outcome = "noLocation" -> "400 Location could not be extracted"
    [] outcome = "noTypes" -> "400 No business types found"
    [] OTHER -> "none"

\* route.ts:846-854  the body is parsed and the prompt checked
PostParseBody ==
  /\ ppc = "body"
  /\ IF prompt # "text"
     THEN response' = "400 Prompt is required" /\ ppc' = "returned"
     ELSE response' = response /\ ppc' = "extract"
  /\ UNCHANGED <<prompt, startTileIndex, tilerVars, rateVars, cacheVars, lateVars,
                 govVars,
                 streamVars, resolveVars>>

\* route.ts:856-1002  extraction by the model or by the rules, the fallbacks,
\* and the checks of location and business types
PostExtract ==
  /\ ppc = "extract"
  /\ response = "none"
  /\ \E outcome \in {"aiFailed", "badStructure", "noLocation", "noTypes",
                     "ok"} :
       /\ response' = ExtractResponse(outcome)
       /\ ppc' = AfterExtract(outcome)
  /\ UNCHANGED <<prompt, startTileIndex, tilerVars, rateVars, cacheVars, lateVars,
                 govVars,
                 streamVars, resolveVars>>

\* route.ts:1004-1028, 1183-1203  geocodeLocation answers; with a center the
\* tiles are built, the batch computed and the stream handed back
PostGeocode ==
  /\ ppc = "geocode"
  /\ ppc' = "returned"
  /\ \E found \in {"center", "none", "throws"} :
       IF found = "center"
       THEN LET built == buildTiles(tiles, radiusKm, tileSizeKm, overlapKm)
                start == StartIndexOf(NormalizedStart(startTileIndex),
                                      Len(built))
            IN /\ tiles' = built
               /\ prevTiles' = tiles
               /\ builds' = builds + 1
               /\ tileCount' = Len(built)
               /\ startIndex' = start
               /\ endIndex' = EndIndexOf(start, Len(built))
               /\ tileIdx' = start
               /\ spc' = "start"
               /\ response' = "stream"
       ELSE /\ response' = IF found = "none" THEN "400 Unable to geocode"
                           ELSE "500 Internal server error"
            /\ UNCHANGED <<tiles, prevTiles, builds, tileCount, startIndex,
                           endIndex, tileIdx, spc>>
  /\ UNCHANGED <<prompt, startTileIndex, radiusKm, tileSizeKm, overlapKm,
                 probe, rateVars, cacheVars, lateVars, govVars, resolveVars, tpc, stream, aborted,
                 minoApiKey, googleApiKey, tilesSearched, businessesFound,
                 seenPlaceIds, tileBusinesses, tileDropped, resolverCalls,
                 resolvedFalse, abortTile, tileLog, faulted, errorCause,
                 stalled, returned>>

\* no resolution is being followed step by step
ResolverIdle ==
  /\ rpc = "idle"
  /\ business = [website |-> "none", google_place_id |-> FALSE]
  /\ cacheRow = {}
  /\ cached = {}
  /\ hasWebsite = NULL
  /\ attempt = 0
  /\ calls = <<>>
  /\ answers = <<>>
  /\ failed = {}
  /\ providerWebsite = "unasked"
  /\ result = "pending"

\* the answers are not fixed: every call draws its own
OutcomesIdle == outcomeOf = <<>>

\* POST has built the stream and start(controller) is about to run
InitStream ==
  /\ ResolverIdle
  /\ PostIdle
  /\ TilerIdle
  /\ RateIdle
  /\ CacheIdle
  /\ BeatIdle
  /\ PageIdle
  /\ tileCount \in 1..MaxTileCount
  /\ minoApiKey \in BOOLEAN
  /\ googleApiKey \in BOOLEAN
  /\ startIndex = StartIndexOf(0, tileCount)
  /\ endIndex = EndIndexOf(StartIndexOf(0, tileCount), tileCount)
  /\ tileIdx = StartIndexOf(0, tileCount)
  /\ spc = "start"
  /\ tpc = "none"
  /\ stream = <<>>
  /\ aborted = FALSE
  /\ tilesSearched = 0
  /\ businessesFound = 0
  /\ seenPlaceIds = {}
  /\ tileBusinesses = <<>>
  /\ tileDropped = 0
  /\ resolverCalls = [id \in Ids |-> 0]
  /\ resolvedFalse = {}
  /\ abortTile = NoIndex
  /\ tileLog = <<>>
  /\ faulted = FALSE
  /\ errorCause = "none"
  /\ stalled = FALSE
  /\ returned = {}
  /\ items = <<>>
  /\ limit = WEBSITE_CHECK_CONCURRENCY
  /\ nextItem = 1
  /\ executing = {}
  /\ settled = {}
  /\ gpc = "idle"

Init == InitStream /\ OutcomesIdle

Next ==
  \/ StartStream
  \/ Abort
  \/ AdapterNominatim
  \/ AdapterOverpass
  \/ AdapterPhoton
  \/ AdapterGoogle
  \/ ResolverSettles
  \/ GovernorStep
  \/ TileComplete
  \/ GovernorThrows
  \/ Resume

Spec == Init /\ [][Next]_vars

\* the event loop runs every continuation that is ready, every external call
\* answers or fails, and the caller re-invokes while hasMore is true
FairSpec == Spec /\ WF_vars(Next)

\* the stream when what resolveHasWebsite returns for an identity (from the
\* cache contents and the verification answers) is fixed beforehand: only
\* the adapter outputs, the signal and the order of completion vary
InitFixed == InitStream /\ outcomeOf \in [Ids -> ResolveOutcomes]

NextFixed ==
  \/ StartStream
  \/ Abort
  \/ AdapterNominatim
  \/ AdapterOverpass
  \/ AdapterPhoton
  \/ AdapterGoogle
  \/ ResolverSettlesFixed
  \/ GovernorStep
  \/ TileComplete
  \/ GovernorThrows
  \/ Resume

SpecFixed == InitFixed /\ [][NextFixed]_vars

\* the fetch awaited by the tile loop never answers: fetchNominatim,
\* searchPhotonPlaces and fetchGoogleJson set no timer, and the timer of
\* fetchOverpass aborts a controller whose signal is not the one handed to
\* fetch when the caller's signal is present (route.ts:328-345)
Stall ==
  /\ spc = "running"
  /\ tpc \in {"nominatim", "overpass", "photon", "google"}
  /\ ~stalled
  /\ stalled' = TRUE
  /\ UNCHANGED <<auxVars, resolveVars, govVars, cfgVars, returned, invVars, spc, tpc, stream,
                 aborted, abortTile, tileIdx, tileVars, countVars,
                 resolverCalls, resolvedFalse, tileLog, faulted, errorCause>>

\* the steps the server takes by itself: every continuation that is ready
\* runs; the caller's signal and the caller's re-invocation are not among them
ServerStep ==
  \/ StartStream
  \/ AdapterNominatim
  \/ AdapterOverpass
  \/ AdapterPhoton
  \/ AdapterGoogle
  \/ ResolverSettles
  \/ GovernorStep
  \/ TileComplete
  \/ GovernorThrows

NextStall ==
  \/ Next
  \/ Stall

\* the stream when an adapter fetch may stall; the event loop is fair to the
\* server's own steps
StallSpec == Init /\ [][NextStall]_vars /\ WF_vars(ServerStep)

\* the stream of one invocation with its heartbeat, over a tile list of at
\* most MaxBeatTiles
InitBeat == Init /\ tileCount <= MaxBeatTiles

NextBeat ==
  \/ StartStream
  \/ Abort
  \/ AdapterNominatim
  \/ AdapterOverpass
  \/ AdapterPhoton
  \/ AdapterGoogle
  \/ ResolverSettles
  \/ GovernorStep
  \/ TileComplete
  \/ GovernorThrows
  \/ Heartbeat

SpecBeat == InitBeat /\ [][NextBeat]_vars

\* no stream is open
StreamIdle ==
  /\ spc = "closed" /\ tpc = "none" /\ stream = <<>> /\ aborted = FALSE
  /\ tileCount = 1
  /\ startIndex = 0 /\ endIndex = 0 /\ tileIdx = 0 /\ tilesSearched = 0
  /\ businessesFound = 0 /\ seenPlaceIds = {} /\ tileBusinesses = <<>> /\ tileDropped = 0
  /\ resolverCalls = <<>> /\ resolvedFalse = {} /\ abortTile = NoIndex
  /\ tileLog = <<>> /\ faulted = FALSE
  /\ errorCause = "none" /\ stalled = FALSE /\ returned = {}

\* a request POST /api/run, for every body and configuration
InitPost ==
  /\ ppc = "body"
  /\ prompt \in {"missing", "nonstring", "text"}
  /\ startTileIndex \in StartTileIndexInputs
  /\ response = "none"
  /\ radiusKm \in {RadiusOf(raw) : raw \in RadiusInputs}
  /\ tileSizeKm \in PostTileSizes
  /\ overlapKm = 0
  /\ tiles = <<>> /\ prevTiles = <<>> /\ builds = 0 /\ probe = NoPoint
  /\ RateIdle
  /\ CacheIdle
  /\ BeatIdle
  /\ PageIdle
  /\ OutcomesIdle
  /\ minoApiKey \in BOOLEAN /\ googleApiKey \in BOOLEAN
  /\ StreamIdle
  /\ ResolverIdle
  /\ items = <<>> /\ limit = WEBSITE_CHECK_CONCURRENCY /\ nextItem = 1
  /\ executing = {} /\ settled = {} /\ gpc = "idle"

\* the request up to the first events of its stream
NextPost ==
  \/ PostParseBody
  \/ PostExtract
  \/ PostGeocode
  \/ StartStream

SpecPost == InitPost /\ [][NextPost]_vars

\* the points of the plane looked at, in quarters of a km
ProbeCoordinates(radius) ==
  (-QUARTERS * (radius + 1))..(QUARTERS * (radius + 1))

\* buildTiles(center, radiusKm, tileSizeKm, overlapKm) is called for the
\* query; the caller calls it again for the same query
TilerCall ==
  /\ builds < MaxBuilds
  /\ probe = NoPoint
  /\ tiles' = buildTiles(tiles, radiusKm, tileSizeKm, overlapKm)
  /\ prevTiles' = tiles
  /\ builds' = builds + 1
  /\ UNCHANGED <<radiusKm, tileSizeKm, overlapKm, probe, postVars, rateVars, cacheVars, lateVars,
                 govVars, streamVars, resolveVars>>

\* a point of the plane is looked up in the list returned
Probe ==
  /\ builds >= 1
  /\ probe = NoPoint
  /\ \E px \in ProbeCoordinates(radiusKm), py \in ProbeCoordinates(radiusKm) :
       probe' = <<px, py>>
  /\ UNCHANGED <<radiusKm, tileSizeKm, overlapKm, tiles, prevTiles, builds,
                 postVars, rateVars, cacheVars, lateVars, govVars, streamVars, resolveVars>>

\* a query: its radius and the configured tile size and overlap
InitTiles ==
  /\ radiusKm \in 1..MaxRadiusKm
  /\ tileSizeKm \in 1..MaxTileSizeKm
  /\ overlapKm \in 0..MaxOverlapKm
  /\ tiles = <<>> /\ prevTiles = <<>> /\ builds = 0 /\ probe = NoPoint
  /\ PostIdle
  /\ RateIdle
  /\ CacheIdle
  /\ BeatIdle
  /\ PageIdle
  /\ OutcomesIdle
  /\ minoApiKey = TRUE /\ googleApiKey = TRUE
  /\ StreamIdle
  /\ ResolverIdle
  /\ items = <<>> /\ limit = WEBSITE_CHECK_CONCURRENCY /\ nextItem = 1
  /\ executing = {} /\ settled = {} /\ gpc = "idle"

\* the calls of buildTiles for one query
NextTiles == TilerCall

SpecTiles == InitTiles /\ [][NextTiles]_vars

\* the calls, and the points of the plane looked up in what they returned
NextCover ==
  \/ TilerCall
  \/ Probe

SpecCover == InitTiles /\ [][NextCover]_vars

\* a process whose module was just loaded (lastNominatimRequestAt = 0), the
\* clock at least one spacing after the origin
InitRate ==
  /\ clock = NOMINATIM_RATE_LIMIT_MS
  /\ lastRequestAt = 0
  /\ lpc = [c \in Coroutines |-> "idle"]
  /\ wakeAt = [c \in Coroutines |-> 0]
  /\ requests = <<>>
  /\ CacheIdle
  /\ BeatIdle
  /\ PageIdle
  /\ OutcomesIdle
  /\ PostIdle
  /\ TilerIdle
  /\ minoApiKey = TRUE /\ googleApiKey = TRUE
  /\ StreamIdle
  /\ ResolverIdle
  /\ items = <<>> /\ limit = WEBSITE_CHECK_CONCURRENCY /\ nextItem = 1
  /\ executing = {} /\ settled = {} /\ gpc = "idle"

NextRate ==
  \/ \E c \in Coroutines : RateCheck(c)
  \/ \E c \in Coroutines : RateWake(c)
  \/ \E c \in Coroutines : RateFetchSettles(c)
  \/ Tick

SpecRate == InitRate /\ [][NextRate]_vars

\* the table holds at most one row per place_id; every coroutine resolves one
\* business, the same one or different ones
InitCache ==
  /\ table \in [Ids -> {{}} \cup
                  {{[has_website |-> v, last_checked_at |-> 0]} : v \in TriState}]
  /\ resolving \in [Coroutines -> Ids]
  /\ dpc = [c \in Coroutines |-> "idle"]
  /\ dbOp = [c \in Coroutines |-> NoOp]
  /\ dbCalls = 0
  /\ BeatIdle
  /\ PageIdle
  /\ OutcomesIdle
  /\ clock = MaxClock - 2 * TickMs
  /\ lastRequestAt = 0 /\ requests = <<>> /\ lpc = <<>> /\ wakeAt = <<>>
  /\ PostIdle
  /\ TilerIdle
  /\ minoApiKey = TRUE /\ googleApiKey = TRUE
  /\ StreamIdle
  /\ ResolverIdle
  /\ items = <<>> /\ limit = WEBSITE_CHECK_CONCURRENCY /\ nextItem = 1
  /\ executing = {} /\ settled = {} /\ gpc = "idle"

NextCache ==
  \/ \E c \in Coroutines : CacheCall(c)
  \/ \E c \in Coroutines : CacheRead(c)
  \/ \E c \in Coroutines : CacheUpdate(c)
  \/ \E c \in Coroutines : CacheInsert(c)
  \/ \E c \in Coroutines : CacheReturn(c)
  \/ Tick

SpecCache == InitCache /\ [][NextCache]_vars

\* what the provider can hold for a query: full pages, then possibly a short
\* one, each with its pattern of records without identity
RECURSIVE PagesFrom(_, _, _)
PagesFrom(first, lens, patterns) ==
  IF lens = <<>> THEN <<>>
  ELSE <<PageOf(first, Head(lens), Head(patterns))>> \o
       PagesFrom(first + Head(lens), Tail(lens), Tail(patterns))

ShortLengths == {1, MAX_PAGE_SIZE - 1}

PageLengths ==
  UNION {{[i \in 1..k |-> MAX_PAGE_SIZE]} \cup
         {[i \in 1..(k + 1) |-> IF i <= k THEN MAX_PAGE_SIZE ELSE short] :
            short \in ShortLengths} :
         k \in 0..MaxFullPages}

\* fetchBusinessesForTile has been called (offset = 0, results empty)
InitPages ==
  /\ \E lens \in PageLengths :
       \E patterns \in [1..Len(lens) -> IdentityPatterns] :
         provider = PagesFrom(0, lens, patterns)
  /\ pgc = "loop"
  /\ offset = 0
  /\ results = <<>>
  /\ offsets = <<>>
  /\ OutcomesIdle
  /\ PostIdle
  /\ TilerIdle
  /\ RateIdle
  /\ CacheIdle
  /\ BeatIdle
  /\ minoApiKey = TRUE /\ googleApiKey = TRUE
  /\ StreamIdle
  /\ ResolverIdle
  /\ items = <<>> /\ limit = WEBSITE_CHECK_CONCURRENCY /\ nextItem = 1
  /\ executing = {} /\ settled = {} /\ gpc = "idle"

NextPages == FetchPage

SpecPages == InitPages /\ [][NextPages]_vars

\* a call processWithConcurrency(items, limit, handler), up to its first await
InitGov ==
  /\ \E n \in 0..MaxItems, lim \in 1..MaxLimit :
       LET r == RunLoop(1, {}, n, lim)
       IN /\ items = [i \in 1..n |-> i]
          /\ limit = lim
          /\ nextItem = r.nextItem
          /\ executing = r.executing
          /\ gpc = r.gpc
  /\ settled = {}
  /\ minoApiKey = TRUE /\ googleApiKey = TRUE
  /\ StreamIdle
  /\ ResolverIdle
  /\ PostIdle
  /\ TilerIdle
  /\ RateIdle
  /\ CacheIdle
  /\ BeatIdle
  /\ PageIdle
  /\ OutcomesIdle

\* a handler fulfils or rejects
HandlerSettles ==
  \E i \in executing, ok \in BOOLEAN : GovSettle(i, ok)

NextGov ==
  \/ HandlerSettles /\ UNCHANGED <<streamVars, resolveVars, auxVars>>
  \/ GovResume /\ UNCHANGED <<streamVars, resolveVars, auxVars>>
  \/ GovReturn /\ UNCHANGED <<streamVars, resolveVars, auxVars>>

SpecGov == InitGov /\ [][NextGov]_vars

(***************************************************************************)
(* resolveHasWebsite, step by step, against the cache                      *)
(***************************************************************************)
\* rpc: "idle"          not called
\*      "get"           awaiting getBusinessFromCache           (route.ts:729)
\*      "declaredWrite" awaiting updateBusiness of step 2       (route.ts:737)
\*      "find"          awaiting findGooglePlaceId              (route.ts:750)
\*      "details"       awaiting getGooglePlaceWebsite          (route.ts:756)
\*      "googleWrite"   awaiting updateBusiness of step 3       (route.ts:760)
\*      "placeholder"   awaiting upsertBusiness of step 4       (route.ts:784)
\*      "mino"          awaiting checkBusinessWebsite           (route.ts:800)
\*      "sleep"         awaiting sleep between two attempts     (route.ts:809)
\*      "finalWrite"    awaiting updateBusiness of step 5       (route.ts:814)
\*      "done"          returned result
\*      "thrown"        left by an exception

\* db-businesses.ts:226  1000 * 60 * 60
MS_PER_HOUR == 3600000
\* route.ts:731  isDataFresh(cached.last_checked_at, 24)
CACHE_MAX_AGE_HOURS == 24

\* new Date().getTime(), in ms from an origin two days back
Clock == 2 * CACHE_MAX_AGE_HOURS * MS_PER_HOUR

\* ages of a cache entry: just written, 23 h 59 min, 24 h, 24 h + 1 s, 48 h
SampleAges ==
  {0, CACHE_MAX_AGE_HOURS * MS_PER_HOUR - 60000,
   CACHE_MAX_AGE_HOURS * MS_PER_HOUR,
   CACHE_MAX_AGE_HOURS * MS_PER_HOUR + 1000,
   2 * CACHE_MAX_AGE_HOURS * MS_PER_HOUR}

CacheRows ==
  [has_website : TriState,
   last_checked_at : {Clock - a : a \in SampleAges} \cup {NoTime}]

isDataFreshInclusive(lastCheckedAt, maxAgeHours) ==
  IF lastCheckedAt = NoTime
  THEN FALSE
  ELSE (Clock - lastCheckedAt) <= maxAgeHours * MS_PER_HOUR
\* db-businesses.ts:208-235
isDataFresh(lastCheckedAt, maxAgeHours) ==
  IF lastCheckedAt = NoTime
  THEN FALSE
  ELSE (Clock - lastCheckedAt) < maxAgeHours * MS_PER_HOUR

CacheHitNever(snap) == FALSE
\* route.ts:731
CacheHit(snap) ==
  \E r \in snap :
    r.has_website # NULL /\ isDataFresh(r.last_checked_at, CACHE_MAX_AGE_HOURS)

\* route.ts:735  business.website && business.website.trim().length > 0
DeclaredWebsite(biz) == biz.website = "url"

\* db-businesses.ts:158-192  UPDATE ... WHERE place_id: no row, no effect
UpdateRow(rows, v) ==
  {[has_website |-> v, last_checked_at |-> Clock] : r \in rows}

\* db-businesses.ts:249-274  read, then update the row or insert one
UpsertRow(rows, v) ==
  IF rows = {} THEN {[has_website |-> v, last_checked_at |-> Clock]}
  ELSE UpdateRow(rows, v)

ShouldRetryOnFalse(answer) == answer # "true"
\* route.ts:805  if (hasWebsite !== null) break
ShouldRetry(answer) == answer = NULL

AfterCacheWriteRethrows(ok, label) == IF ok THEN label ELSE "thrown"
\* route.ts:736-743, 759-769, 783-787, 813-820  try { await write } catch
\* { console.error }: the resolution goes on whether or not the write failed
AfterCacheWrite(ok, label) == label

\* the kinds of failed calls, with kind added when the call was not ok
FailedWith(ok, kind) == IF ok THEN failed ELSE failed \cup {kind}

\* what the resolution hands back when it ends in label with value v
ResultAt(label, v) ==
  IF label = "done" THEN v ELSE IF label = "thrown" THEN "throw" ELSE "pending"

\* the website field of the provider's details record: absent, the empty
\* string, a string of blanks, or a populated one
ProviderWebsites == {"absent", "empty", "blank", "url"}

WebsiteOrNullKeepsEmpty(field) == IF field = "absent" THEN NULL ELSE field
\* google-places.ts:130  return data.result?.website || null
WebsiteOrNull(field) ==
  IF field \in {"absent", "empty"} THEN NULL ELSE field

\* route.ts:758  website.trim().length > 0
TrimmedNonEmpty(website) == IF website = "url" THEN "true" ELSE "false"

AfterStep4Always(mino) == "mino"
\* route.ts:790-792  if (!minoApiKey) return null
AfterStep4(mino) == IF mino THEN "mino" ELSE "done"

\* route.ts:775-792  from the end of step 3 to the next await or return
AfterGoogle(snap) ==
  IF snap = {}
  THEN rpc' = "placeholder" /\ result' = "pending"
  ELSE /\ rpc' = AfterStep4(minoApiKey)
       /\ result' = ResultAt(AfterStep4(minoApiKey), NULL)

\* route.ts:729-756  getBusinessFromCache returns (null when the read fails,
\* db-businesses.ts:57-104), then steps 1 to 3 up to the next await
ResolveCacheRead ==
  /\ rpc = "get"
  /\ \E ok \in BOOLEAN :
       LET snap == IF ok THEN cacheRow ELSE {}
       IN /\ failed' = FailedWith(ok, "get")
          /\ cached' = snap
          /\ IF CacheHit(snap)
             THEN /\ rpc' = "done"
                  /\ result' = (CHOOSE r \in snap : TRUE).has_website
             ELSE IF DeclaredWebsite(business)
                  THEN rpc' = "declaredWrite" /\ result' = "pending"
                  ELSE IF googleApiKey
                       THEN /\ rpc' = IF business.google_place_id
                                      THEN "details" ELSE "find"
                            /\ result' = "pending"
                       ELSE AfterGoogle(snap)
  /\ calls' = Append(calls, "get")
  /\ UNCHANGED <<business, cacheRow, hasWebsite, attempt, answers,
                 providerWebsite>>

\* route.ts:736-744  the write succeeds or its failure is swallowed
ResolveDeclaredWrite ==
  /\ rpc = "declaredWrite"
  /\ \E ok \in BOOLEAN :
       /\ cacheRow' = IF ok THEN UpdateRow(cacheRow, "true") ELSE cacheRow
       /\ failed' = FailedWith(ok, "update")
       /\ rpc' = AfterCacheWrite(ok, "done")
       /\ result' = ResultAt(AfterCacheWrite(ok, "done"), "true")
  /\ calls' = Append(calls, "update")
  /\ UNCHANGED <<business, cached, hasWebsite, attempt, answers,
                 providerWebsite>>

\* route.ts:749-755  findGooglePlaceId (google-places.ts:102-114) returns a
\* place id or null, or its unguarded fetch raises
ResolveGoogleFind ==
  /\ rpc = "find"
  /\ calls' = Append(calls, "find")
  /\ \/ rpc' = "details" /\ result' = "pending" /\ UNCHANGED failed
     \/ AfterGoogle(cached) /\ UNCHANGED failed
     \/ /\ rpc' = "thrown" /\ result' = "throw"
        /\ failed' = FailedWith(FALSE, "find")
  /\ UNCHANGED <<business, cacheRow, cached, hasWebsite, attempt, answers,
                 providerWebsite>>

\* route.ts:756-758  getGooglePlaceWebsite (google-places.ts:116-131) returns
\* the website field of the record or null, or its unguarded fetch raises
ResolveGoogleDetails ==
  /\ rpc = "details"
  /\ calls' = Append(calls, "details")
  /\ \/ \E field \in ProviderWebsites :
          /\ providerWebsite' = field
          /\ IF WebsiteOrNull(field) # NULL
             THEN /\ hasWebsite' = TrimmedNonEmpty(WebsiteOrNull(field))
                  /\ rpc' = "googleWrite"
                  /\ result' = "pending"
             ELSE AfterGoogle(cached) /\ UNCHANGED hasWebsite
          /\ UNCHANGED failed
     \/ /\ rpc' = "thrown" /\ result' = "throw"
        /\ failed' = FailedWith(FALSE, "details")
        /\ UNCHANGED <<hasWebsite, providerWebsite>>
  /\ UNCHANGED <<business, cacheRow, cached, attempt, answers>>

\* route.ts:759-770
ResolveGoogleWrite ==
  /\ rpc = "googleWrite"
  /\ \E ok \in BOOLEAN :
       /\ cacheRow' = IF ok THEN UpdateRow(cacheRow, hasWebsite) ELSE cacheRow
       /\ failed' = FailedWith(ok, "update")
       /\ rpc' = AfterCacheWrite(ok, "done")
       /\ result' = ResultAt(AfterCacheWrite(ok, "done"), hasWebsite)
  /\ calls' = Append(calls, "update")
  /\ UNCHANGED <<business, cached, hasWebsite, attempt, answers,
                 providerWebsite>>

\* route.ts:775-792  the placeholder upsert succeeds or its failure is
\* swallowed; without the automation credential the resolution ends here
ResolvePlaceholder ==
  /\ rpc = "placeholder"
  /\ \E ok \in BOOLEAN :
       LET label == AfterCacheWrite(ok, AfterStep4(minoApiKey))
       IN /\ cacheRow' = IF ok THEN UpsertRow(cacheRow, NULL) ELSE cacheRow
          /\ failed' = FailedWith(ok, "upsert")
          /\ rpc' = label
          /\ result' = ResultAt(label, NULL)
  /\ calls' = Append(calls, "upsert")
  /\ UNCHANGED <<business, cached, hasWebsite, attempt, answers,
                 providerWebsite>>

\* route.ts:799-811  one checkBusinessWebsite call answers (mino-api.ts:39-223:
\* a boolean, or null for every failure)
ResolveMinoCall ==
  /\ rpc = "mino"
  /\ \E answer \in TriState :
       /\ hasWebsite' = answer
       /\ answers' = Append(answers, answer)
       /\ failed' = FailedWith(answer # NULL, "mino")
       /\ rpc' = IF ShouldRetry(answer) /\ attempt < WEBSITE_CHECK_RETRIES
                 THEN "sleep" ELSE "finalWrite"
  /\ calls' = Append(calls, "mino")
  /\ UNCHANGED <<business, cacheRow, cached, attempt, result, providerWebsite>>

\* route.ts:808-810, 799  the sleep elapses, attempt += 1
ResolveSleep ==
  /\ rpc = "sleep"
  /\ attempt' = attempt + 1
  /\ rpc' = "mino"
  /\ UNCHANGED <<business, cacheRow, cached, hasWebsite, calls, answers,
                 failed, providerWebsite, result>>

\* route.ts:813-822
ResolveFinalWrite ==
  /\ rpc = "finalWrite"
  /\ \E ok \in BOOLEAN :
       /\ cacheRow' = IF ok THEN UpdateRow(cacheRow, hasWebsite) ELSE cacheRow
       /\ failed' = FailedWith(ok, "update")
       /\ rpc' = AfterCacheWrite(ok, "done")
       /\ result' = ResultAt(AfterCacheWrite(ok, "done"), hasWebsite)
  /\ calls' = Append(calls, "update")
  /\ UNCHANGED <<business, cached, hasWebsite, attempt, answers,
                 providerWebsite>>

\* a call resolveHasWebsite(business, minoApiKey, googleApiKey), suspended in
\* its cache lookup, for every cache content and credential configuration
InitResolve ==
  /\ rpc = "get"
  /\ business \in [website : {"none", "blank", "url"},
                   google_place_id : BOOLEAN]
  /\ cacheRow \in {{}} \cup {{r} : r \in CacheRows}
  /\ cached = {}
  /\ hasWebsite = NULL
  /\ attempt = 0
  /\ calls = <<>>
  /\ answers = <<>>
  /\ failed = {}
  /\ providerWebsite = "unasked"
  /\ result = "pending"
  /\ minoApiKey \in BOOLEAN
  /\ googleApiKey \in BOOLEAN
  /\ StreamIdle
  /\ PostIdle
  /\ TilerIdle
  /\ RateIdle
  /\ CacheIdle
  /\ BeatIdle
  /\ PageIdle
  /\ OutcomesIdle
  /\ items = <<>> /\ limit = WEBSITE_CHECK_CONCURRENCY /\ nextItem = 1
  /\ executing = {} /\ settled = {} /\ gpc = "idle"

NextResolve ==
  \/ ResolveCacheRead /\ UNCHANGED <<govVars, streamVars, auxVars>>
  \/ ResolveDeclaredWrite /\ UNCHANGED <<govVars, streamVars, auxVars>>
  \/ ResolveGoogleFind /\ UNCHANGED <<govVars, streamVars, auxVars>>
  \/ ResolveGoogleDetails /\ UNCHANGED <<govVars, streamVars, auxVars>>
  \/ ResolveGoogleWrite /\ UNCHANGED <<govVars, streamVars, auxVars>>
  \/ ResolvePlaceholder /\ UNCHANGED <<govVars, streamVars, auxVars>>
  \/ ResolveMinoCall /\ UNCHANGED <<govVars, streamVars, auxVars>>
  \/ ResolveSleep /\ UNCHANGED <<govVars, streamVars, auxVars>>
  \/ ResolveFinalWrite /\ UNCHANGED <<govVars, streamVars, auxVars>>

SpecResolve == InitResolve /\ [][NextResolve]_vars

(* C4: the number of handlers started and not yet settled never exceeds
   limit, for every item list, every limit >= 1 and every completion order. *)
C4_InFlightBounded == Cardinality(executing) <= limit

\* the window is full again after a handler has settled and the loop has
\* launched the next one
C4_Witness ==
  /\ Cardinality(executing) = limit
  /\ gpc = "race"
  /\ settled # {}
  /\ nextItem <= Len(items)
  /\ limit >= 2

(* C5: processWithConcurrency waits only while the window is full, resumes
   launching once any one handler has settled (the others still in flight),
   and returns normally only when every item was launched and has settled. *)
C5_SlidingWindow ==
  /\ gpc = "race" => Cardinality(executing) >= limit
  /\ gpc = "returned" =>
       /\ executing = {}
       /\ nextItem = Len(items) + 1
       /\ settled = 1..Len(items)

\* a handler of the first window is still in flight next to one launched
\* after the window had filled
C5_Witness ==
  /\ limit >= 2
  /\ \E i \in executing, j \in executing : i <= limit /\ j > limit
  /\ settled # {}

(* C1: when the entry the cache lookup returned has a known has_website and
   an age under 24 hours, resolveHasWebsite returns that value at once: the
   lookup is the only call it has made (no places text-match lookup, no
   places details fetch, no automation call, no cache write) and the cache
   row is as it was read. *)
C1_FreshCacheHit ==
  \A r \in cached :
    (/\ calls # <<>>
     /\ r.has_website # NULL
     /\ r.last_checked_at # NoTime
     /\ Clock - r.last_checked_at < CACHE_MAX_AGE_HOURS * MS_PER_HOUR)
    => /\ rpc = "done"
       /\ result = r.has_website
       /\ calls = <<"get">>
       /\ answers = <<>>
       /\ cacheRow = cached

\* a 23 h 59 min old false is returned although a website is declared and
\* both credentials are configured
C1_Witness ==
  /\ rpc = "done"
  /\ result = "false"
  /\ calls = <<"get">>
  /\ cached = {[has_website |-> "false",
                last_checked_at |->
                  Clock - (CACHE_MAX_AGE_HOURS * MS_PER_HOUR - 60000)]}
  /\ business.website = "url"
  /\ minoApiKey /\ googleApiKey

(* C6: in step 5 a boolean answer ends the loop at once and an indeterminate
   answer is retried until a boolean arrives or WEBSITE_CHECK_RETRIES + 1
   calls were made; the number of automation calls is between 1 and
   WEBSITE_CHECK_RETRIES + 1, and it is WEBSITE_CHECK_RETRIES + 1 exactly
   when each of the first WEBSITE_CHECK_RETRIES attempts was indeterminate
   (the last one may have answered). *)
C6_RetryOnlyIndeterminate ==
  /\ Len(answers) <= WEBSITE_CHECK_RETRIES + 1
  /\ \A i \in 1..(Len(answers) - 1) : answers[i] = NULL
  /\ (rpc \in {"finalWrite", "done"} /\ answers # <<>>) =>
       /\ Len(answers) \in 1..(WEBSITE_CHECK_RETRIES + 1)
       /\ Last(answers) = NULL => Len(answers) = WEBSITE_CHECK_RETRIES + 1
       /\ Len(answers) = WEBSITE_CHECK_RETRIES + 1
            <=> /\ Len(answers) >= WEBSITE_CHECK_RETRIES
                /\ \A i \in 1..WEBSITE_CHECK_RETRIES : answers[i] = NULL
  /\ Cardinality({i \in 1..Len(calls) : calls[i] = "mino"}) = Len(answers)

\* the last permitted attempt answers with a boolean
C6_Witness ==
  /\ rpc = "done"
  /\ Len(answers) = WEBSITE_CHECK_RETRIES + 1
  /\ Last(answers) = "false"
  /\ result = "false"

\* the claim as stated: the maximum is reached exactly when every attempt
\* was indeterminate
C6_AsStated ==
  (rpc = "done" /\ answers # <<>>) =>
    (Len(answers) = WEBSITE_CHECK_RETRIES + 1
       <=> \A i \in 1..Len(answers) : answers[i] = NULL)

\* positions in the stream of the events of one type
EventsOfType(t) == {i \in 1..Len(stream) : stream[i].type = t}

\* positions of the business events that carry identity id
BusinessEventsFor(id) ==
  {i \in EventsOfType("business") : stream[i].id = id}

(* C2: in every stream a business event is emitted for a business if and
   only if its resolution in this invocation returned has-website = false:
   none for a business resolved to true or unknown, one for every business
   resolved to false. *)
C2_BusinessIffFalse ==
  \A id \in Ids : (BusinessEventsFor(id) # {}) <=> (id \in resolvedFalse)

(* C3: within one invocation the Website Resolver is invoked at most once
   for every identity and at most one business event carries it, however
   many times adapters return it for one tile or for later tiles. *)
C3_DedupFirstSeenWins ==
  \A id \in Ids :
    /\ resolverCalls[id] <= 1
    /\ Cardinality(BusinessEventsFor(id)) <= 1
    /\ resolverCalls[id] = 1 => id \in seenPlaceIds

\* every record of a later tile was dropped because its identity had been
\* seen in an earlier tile, where it was resolved and reported once
C3_Witness ==
  /\ tpc = "resolve"
  /\ tilesSearched >= 1
  /\ tileDropped > 0
  /\ items = <<>>
  /\ \E id \in Ids : resolverCalls[id] = 1 /\ BusinessEventsFor(id) # {}

(* C7: when the cancellation signal fires while tile i is being processed
   and later tiles remain, the stream emits no tile event for a later tile
   and ends with a done event with hasMore = true and nextTileIndex = i. *)
C7_CancelReportsInterruptedTile ==
  (spc = "closed" /\ abortTile # NoIndex /\ abortTile + 1 < tileCount) =>
    /\ \A i \in EventsOfType("tile") : stream[i].index <= abortTile
    /\ Last(stream).type = "done"
    /\ Last(stream).hasMore
    /\ Last(stream).nextTileIndex = abortTile

(* C8: the done event has hasMore = true exactly when tiles remain that the
   invocation did not process, nextTileIndex then being the first of them,
   and hasMore = false with a null nextTileIndex otherwise. *)
C8_DoneReportsRemainingTiles ==
  \A i \in EventsOfType("done") :
    /\ stream[i].hasMore <=> stream[i].tilesSearched < tileCount
    /\ stream[i].hasMore => stream[i].nextTileIndex = stream[i].tilesSearched
    /\ ~stream[i].hasMore => stream[i].nextTileIndex = NoIndex

\* the run has ended: a done event with hasMore = false closed the stream
FinalDone ==
  /\ spc = "closed"
  /\ stream # <<>>
  /\ Last(stream).type = "done"
  /\ ~Last(stream).hasMore

\* the tile events of the run so far are those of tiles 0, 1, 2, ... in order
TileLogInOrder == \A i \in 1..Len(tileLog) : tileLog[i] = i - 1

(* C9: starting at cursor 0 and re-invoking with every returned
   nextTileIndex while hasMore is true, with no cancellation and no error
   event, the tile events of the successive invocations are those of tiles
   0, 1, 2, ... each exactly once and in increasing order, all tileCount of
   them once the run has ended, and the run does end with a done event with
   hasMore = false. *)
C9_ResumptionComplete ==
  /\ [](~faulted => /\ TileLogInOrder
                    /\ FinalDone => Len(tileLog) = tileCount)
  /\ <>(faulted \/ FinalDone)

\* a run of more tiles than one invocation takes has ended in its second
\* invocation
C9_Witness ==
  /\ ~faulted
  /\ FinalDone
  /\ startIndex = MAX_TILES_PER_REQUEST
  /\ Len(tileLog) = tileCount

\* positions of the terminal events
Terminals == EventsOfType("done") \cup EventsOfType("error")

(* C10: a started stream ends with exactly one terminal event, done or error
   and never both, error at most once; no terminal event precedes the close
   of the stream and nothing follows the terminal event. *)
C10_OneTerminalEvent ==
  /\ Cardinality(Terminals) <= 1
  /\ spc # "closed" => Terminals = {}
  /\ (spc = "closed" /\ stream # <<>>) =>
       /\ Cardinality(Terminals) = 1
       /\ Last(stream).type \in {"done", "error"}

\* a stream closed by an error event while a handler was still in flight,
\* which has since resolved its business to false
C10_Witness ==
  /\ spc = "closed"
  /\ Last(stream).type = "error"
  /\ EventsOfType("tile") # {}
  /\ settled # {}
  /\ \E id \in resolvedFalse : BusinessEventsFor(id) = {}

(* C11: a Source Adapter that meets an HTTP, network or parse failure returns
   an empty list and never raises to the tile loop: with no cancellation, no
   stream ends with an error event raised by an adapter. *)
C11_AdapterFailureIsolated ==
  ~aborted => errorCause # "adapter"

(* C12: resolveHasWebsite never throws because of a failure of the
   automation call or of the cache: it is left by an exception only out of a
   places lookup, a failing cache read or write is swallowed, and when step 5
   ran the value returned is the last automation answer, whatever failed. *)
C12_CacheAndMinoFailuresSwallowed ==
  /\ rpc = "thrown" =>
       /\ Last(calls) \in {"find", "details"}
       /\ failed \cap {"find", "details"} # {}
  /\ (rpc = "done" /\ answers # <<>>) => result = Last(answers)
  /\ (rpc = "done" /\ "update" \in failed) => result = hasWebsite \/ result = "true"
  /\ (failed \cap {"get", "update", "upsert", "mino"} # {}
        /\ failed \cap {"find", "details"} = {}) => rpc # "thrown"

\* the cache read, the placeholder write, every automation call and the final
\* write have failed, and the resolution has returned unknown
C12_Witness ==
  /\ rpc = "done"
  /\ result = NULL
  /\ {"get", "upsert", "mino", "update"} \subseteq failed
  /\ Len(answers) = WEBSITE_CHECK_RETRIES + 1

(* C13: no I/O failure met while resolving one business unwinds past that
   business: no stream ends with an error event raised out of a resolver
   handler, whatever the position of the business in the tile's list. *)
C13_ResolverFailureIsolated ==
  errorCause # "resolver"

(* C14: a stalled external call is abandoned after its own timeout, so a
   stream whose awaited fetch never answers still reaches a terminal event
   and closes. *)
C14_StalledFetchTimesOut ==
  stalled ~> (spc = "closed")

(* C15: tiles never overlap. In the stream of one invocation the tile
   events carry strictly increasing tile indices, the k-th progress event
   lies after the k-th tile event and before the (k+1)-th and reports that
   same tile as searched, and whenever the loop is at a tile's adapters, or
   has emitted done, no handler of an earlier tile is still in flight. *)
C15_TilesSequential ==
  LET pos(t) == {i \in 1..Len(stream) : stream[i].type = t}
      tileEvs == pos("tile")
      progs == pos("progress")
      before(t, i) == Cardinality({j \in pos(t) : j < i})
  IN /\ \A i, j \in tileEvs : i < j => stream[i].index < stream[j].index
     /\ \A i, j \in progs :
          i < j => stream[i].tilesSearched < stream[j].tilesSearched
     /\ \A i \in tileEvs : before("progress", i) = before("tile", i)
     /\ \A i \in progs :
          /\ before("tile", i) = before("progress", i) + 1
          /\ \E j \in tileEvs :
               /\ j < i
               /\ stream[i].tilesSearched = stream[j].index + 1
               /\ \A k \in tileEvs : k < i => k <= j
     /\ (spc = "running" /\ tpc # "resolve") => executing = {}
     /\ (stream # <<>> /\ Last(stream).type = "done") => executing = {}

C15_Witness ==
  /\ spc = "running" /\ tpc = "resolve" /\ gpc = "settle"
  /\ executing # {}
  /\ Cardinality({i \in 1..Len(stream) : stream[i].type = "tile"}) = 2
  /\ Cardinality({i \in 1..Len(stream) : stream[i].type = "progress"}) = 1
  /\ \E i \in 1..Len(stream) : stream[i].type = "business"

(* C16: streaming, not batching. While the stream is open, the step in which
   a business's resolution completes with has-website = false is the step
   that appends its business event, whatever else is still in flight; so
   every business resolved to false so far already has its event, the events
   follow the order of completion, and a tile's progress event is appended
   only after them, never in the same step. *)
C16_BusinessStreamedOnCompletion ==
  /\ [](spc = "running" =>
          \A id \in resolvedFalse : BusinessEventsFor(id) # {})
  /\ [][ /\ \A id \in resolvedFalse' \ resolvedFalse :
              spc = "running" => stream' = Append(stream, EvBusiness(id))
         /\ (Len(stream') > Len(stream) /\ Last(stream').type = "progress")
              => resolvedFalse' = resolvedFalse ]_vars

C16_Witness ==
  /\ spc = "running" /\ tpc = "resolve"
  /\ stream # <<>> /\ Last(stream).type = "business"
  /\ Last(stream).id \in resolvedFalse
  /\ executing # {}
  /\ gpc \in {"race", "raceFulfilled"}

(* C17: once the cancellation signal has fired no new tile begins and no new
   resolver handler is launched, not even for the remaining businesses of
   the tile in progress: from then on no tile event is appended and the
   number of resolveHasWebsite calls does not grow. *)
C17_NothingLaunchedAfterCancel ==
  [][(aborted /\ aborted') =>
       /\ resolverCalls' = resolverCalls
       /\ ~(Len(stream') > Len(stream) /\ Last(stream').type = "tile")]_vars

(* C18: the staleness boundary. isDataFresh with the 24 hour threshold is
   true for an age of 23 h 59 min and false for 24 h, for 24 h + 1 s and for
   a missing timestamp; a looked-up entry with a known value is returned
   from the cache when its age is below 24 hours, and when its age is 24
   hours or more the call does not end with the lookup alone handing back
   the stored value: it goes on to the later steps. *)
C18_StalenessBoundary ==
  LET day == CACHE_MAX_AGE_HOURS * MS_PER_HOUR
      age(r) == Clock - r.last_checked_at
  IN /\ isDataFresh(Clock - (day - 60000), CACHE_MAX_AGE_HOURS)
     /\ ~isDataFresh(Clock - day, CACHE_MAX_AGE_HOURS)
     /\ ~isDataFresh(Clock - (day + 1000), CACHE_MAX_AGE_HOURS)
     /\ ~isDataFresh(NoTime, CACHE_MAX_AGE_HOURS)
     /\ \A r \in cached :
          (calls # <<>> /\ r.has_website # NULL) =>
            /\ (r.last_checked_at # NoTime /\ age(r) = day - 60000) =>
                 (rpc = "done" /\ calls = <<"get">>
                    /\ result = r.has_website)
            /\ (r.last_checked_at = NoTime \/ age(r) >= day) =>
                 \/ rpc \notin {"done", "thrown"}
                 \/ Len(calls) > 1
                 \/ (result = NULL /\ ~minoApiKey /\ ~googleApiKey)

\* an entry aged 24 h + 1 s that says true is verified again, and the
\* automation answers false
C18_Witness ==
  /\ cached = {[has_website |-> "true",
                last_checked_at |->
                  Clock - (CACHE_MAX_AGE_HOURS * MS_PER_HOUR + 1000)]}
  /\ rpc = "done"
  /\ answers = <<"false">>
  /\ result = "false"

(* C19: when the lookup does not hit and the record carries a non-empty
   declared website, the call returns true after the lookup and one cache
   write, with no places lookup and no automation call, and when that write
   did not fail the cache holds {true, now} for the identity afterwards,
   whether or not it held an entry before. *)
C19_DeclaredWebsitePersisted ==
  (rpc = "done" /\ Len(calls) = 2 /\ calls[2] = "update") =>
    /\ result = "true"
    /\ answers = <<>>
    /\ "update" \notin failed =>
         cacheRow = {[has_website |-> "true", last_checked_at |-> Clock]}

(* C20: in step 3 every non-null website of the provider's details record is
   authoritative, the empty string included: when the record has a website
   field, empty, blank or populated, the call ends in step 3 with
   has-website = (trimmed string non-empty), after a cache write and with no
   automation call; an empty field therefore resolves to false. *)
C20_ProviderWebsiteAuthoritative ==
  (rpc = "done" /\ providerWebsite \in {"empty", "blank", "url"}) =>
    /\ result = TrimmedNonEmpty(providerWebsite)
    /\ Last(calls) = "update"
    /\ answers = <<>>
    /\ \A i \in 1..Len(calls) : calls[i] \notin {"upsert", "mino"}

(* C21: whenever step 5 has run, the final tri-state, unknown included, is
   persisted with the current timestamp after the last attempt: when that
   last write did not fail, the cache entry of the identity holds exactly
   the value handed back to the caller, stamped now. *)
C21_FinalValuePersisted ==
  (rpc = "done" /\ answers # <<>> /\ "update" \notin failed) =>
    /\ Last(calls) = "update"
    /\ result = Last(answers)
    /\ cacheRow = {[has_website |-> result, last_checked_at |-> Clock]}

(* C22: the placeholder of step 4. A placeholder write is issued only when
   the identity had no cache entry, it comes before every automation call
   and, when it does not fail, leaves the entry {unknown, now}; the first
   automation call is made only after the placeholder was issued or with an
   entry already there; and an entry that existed is changed by no step
   other than a persist of a resolved value. *)
C22_PlaceholderOnlyWhenAbsent ==
  [][ LET issued(kind) == Len(calls') = Len(calls) + 1 /\ Last(calls') = kind
      IN /\ issued("upsert") =>
              /\ cacheRow = {}
              /\ answers = <<>>
              /\ "upsert" \notin failed' =>
                   cacheRow' =
                     {[has_website |-> NULL, last_checked_at |-> Clock]}
         /\ (issued("mino") /\ answers = <<>>) =>
              (cacheRow # {} \/ "upsert" \in Range(calls))
         /\ (cacheRow # {} /\ cacheRow' # cacheRow) => issued("update") ]_vars

(* C23 as stated: no stream ends with an error event caused by a missing
   credential. *)
C23_AsStated ==
  errorCause # "credentials"

(* C23: with at least one of the two credentials configured, a missing one
   reduces coverage silently: no error event is caused by it, the places
   adapter is not queried without the places credential, and a stream that
   closes with no adapter or resolver failure ends with done. With both
   missing, the stream is metadata, then one error event, and no tile. *)
C23_OneCredentialSuffices ==
  /\ (minoApiKey \/ googleApiKey) => errorCause # "credentials"
  /\ ~googleApiKey => tpc # "google"
  /\ (spc = "closed" /\ stream # <<>> /\ errorCause = "none") =>
       Last(stream).type = "done"
  /\ (~minoApiKey /\ ~googleApiKey /\ spc = "closed") =>
       /\ errorCause = "credentials"
       /\ stream = <<EvMetadata, EvError>>
       /\ tileLog = <<>>
  /\ errorCause = "credentials" => (~minoApiKey /\ ~googleApiKey)

\* without the places credential a tile was searched, a business reported
\* and the stream ended with done
C23_Witness ==
  /\ minoApiKey /\ ~googleApiKey
  /\ spc = "closed" /\ errorCause = "none"
  /\ Last(stream).type = "done"
  /\ tilesSearched >= 1
  /\ EventsOfType("business") # {}

(* C24: input errors fail the request before streaming starts. A missing or
   non-string prompt, no location, no business type, or a location that
   cannot be geocoded each give one error response, which is final; when
   POST has returned an error response buildTiles was never called, no
   stream was constructed and no event, not even metadata, was emitted. *)
C24_InputErrorsBeforeStream ==
  /\ [](response \notin {"none", "stream"} =>
          /\ ppc = "returned"
          /\ builds = 0 /\ tiles = <<>>
          /\ spc = "closed" /\ stream = <<>>)
  /\ [](prompt # "text" =>
          response \in {"none", "400 Prompt is required"})
  /\ [](stream # <<>> => response = "stream" /\ builds = 1)
  /\ [][response # "none" => response' = response]_vars

\* the location was extracted but not geocoded: a 400 and nothing else
C24_Witness ==
  /\ response = "400 Unable to geocode"
  /\ prompt = "text"
  /\ builds = 0 /\ stream = <<>>

(* C25 as stated: for every supplied cursor the starting tile index is an
   integer of [0, tileCount - 1] and the batch is the tiles of
   [startIndex, min(startIndex + MAX_TILES_PER_REQUEST, tileCount)). *)
C25_AsStated ==
  response = "stream" =>
    /\ startIndex \in 0..(tileCount - 1)
    /\ endIndex = Min(startIndex + MAX_TILES_PER_REQUEST, tileCount)

(* C25: when the tile list is not empty, for every supplied cursor the
   starting tile index is an integer of [0, tileCount - 1]: 0 for an absent,
   null, non-numeric or negative cursor, the integer part for a fractional
   one, tileCount - 1 beyond the end; the batch is the tiles of
   [startIndex, min(startIndex + MAX_TILES_PER_REQUEST, tileCount)) and is
   not empty. When the tile list is empty (the radius is not a number) the
   starting index is 0 and the batch is empty. *)
C25_CursorClamped ==
  response = "stream" =>
    /\ tileCount = Len(tiles)
    /\ endIndex = Min(startIndex + MAX_TILES_PER_REQUEST, tileCount)
    /\ tileCount = 0 => (startIndex = 0 /\ endIndex = 0)
    /\ tileCount >= 1 =>
         /\ startIndex \in 0..(tileCount - 1)
         /\ startIndex < endIndex
         /\ startTileIndex.kind # "number" => startIndex = 0
         /\ startTileIndex.kind = "number" =>
              LET h == startTileIndex.halves
              IN /\ h < 0 => startIndex = 0
                 /\ (h >= 0 /\ h < 2 * tileCount) =>
                      (2 * startIndex <= h /\ h < 2 * startIndex + 2)
                 /\ h >= 2 * tileCount => startIndex = tileCount - 1

\* the cursor 2.5 starts the batch at tile 2 of more than seven tiles
C25_Witness ==
  /\ response = "stream"
  /\ startTileIndex = [kind |-> "number", halves |-> 5]
  /\ startIndex = 2 /\ endIndex = 2 + MAX_TILES_PER_REQUEST
  /\ tileCount > endIndex

\* the point p (in quarters of a km) lies in the bounding box of tile t
InBounds(p, t) ==
  /\ t.west <= p[1] /\ p[1] <= t.east
  /\ t.south <= p[2] /\ p[2] <= t.north

(* C27: tile coverage. For radiusKm >= tileSizeKm every point within
   radiusKm of the center lies in the bounding box of at least one tile of
   the list buildTiles returned, and every tile of the list has non-empty
   bounds. *)
C27_TilesCoverDisk ==
  (builds >= 1 /\ radiusKm >= tileSizeKm) =>
    /\ \A i \in 1..Len(tiles) :
         tiles[i].west < tiles[i].east /\ tiles[i].south < tiles[i].north
    /\ (/\ probe # NoPoint
        /\ probe[1] * probe[1] + probe[2] * probe[2]
             <= QUARTERS * QUARTERS * radiusKm * radiusKm)
         => \E i \in 1..Len(tiles) : InBounds(probe, tiles[i])

(* C26: buildTiles is deterministic and index-stable. A second call with the
   same (center, radiusKm, tileSizeKm, overlapKm) returns the list the first
   call returned, with the same ids, bounds and order; the list is in
   row-major order of the sweep (y, then x); and the tile at position i,
   counted from 0, has id tile-i. *)
C26_TilesDeterministic ==
  /\ builds = MaxBuilds => tiles = prevTiles
  /\ \A i \in 1..Len(tiles) : tiles[i].id = i - 1
  /\ \A i \in 1..(Len(tiles) - 1) :
       \/ tiles[i].y < tiles[i + 1].y
       \/ (tiles[i].y = tiles[i + 1].y /\ tiles[i].x < tiles[i + 1].x)

\* two calls gave the same list, from which the sweep had left cells out
C26_Witness ==
  /\ builds = MaxBuilds
  /\ tiles = prevTiles
  /\ Len(tiles) > 1
  /\ LET side == 2 * Steps(radiusKm, StepKm(tileSizeKm, overlapKm)) + 1
     IN Len(tiles) < side * side

(* C28: per-adapter rate limiting. Any two consecutive requests the process
   issues to the adapter are at least the configured spacing apart, for
   every interleaving of the coroutines that use its timestamp. *)
C28_RequestsSpaced ==
  \A i \in 1..(Len(requests) - 1) :
    requests[i + 1] - requests[i] >= NOMINATIM_RATE_LIMIT_MS

(* C29: the cache put is an upsert. However two puts for one identity
   interleave, none of them ends with an error, and once a put has
   completed the table holds exactly one entry for its identity. *)
C29_ConcurrentPutsSucceed ==
  \A c \in DOMAIN dpc :
    /\ dpc[c] # "threw"
    /\ (dpc[c] = "ok" /\ dbOp[c].op = "upsert")
         => Cardinality(table[resolving[c]]) = 1

(* C30: a resolution never deletes a cache entry and never changes the
   entry of another identity. In every step each identity that has an
   entry keeps one, and an entry changes only by a write of a coroutine
   that resolves that very identity. *)
C30_OtherEntriesUntouched ==
  [][\A p \in DOMAIN table :
       /\ table[p] # {} => table'[p] # {}
       /\ table'[p] # table[p] =>
            \E c \in DOMAIN dpc :
              /\ resolving[c] = p
              /\ dpc[c] \in {"update", "insert"}
              /\ dpc'[c] = "ok"]_vars

\* a resolution has written the entry of its identity while another identity
\* has an entry
C30_Witness ==
  \E c \in DOMAIN dpc : \E p \in DOMAIN table :
    /\ p # resolving[c]
    /\ table[p] # {}
    /\ dpc[c] = "ok"
    /\ \E r \in table[resolving[c]] : r.last_checked_at = dbOp[c].stamp

(* C31: the heartbeat. The interval timer is armed in every state in which
   the stream is open, whatever the tile loop is waiting for, so a heartbeat
   is emitted whenever the interval is due; on every path that closes the
   stream the timer is cleared, and no heartbeat is ever emitted on a closed
   stream. *)
C31_HeartbeatWhileOpen ==
  /\ spc = "running" => timer = "armed"
  /\ spc = "closed" => timer # "armed"
  /\ \A i \in 1..Len(beats) : beats[i].open

\* heartbeats were emitted while an adapter fetch and while the resolver
\* handlers of a tile were pending, and the stream has since closed
C31_Witness ==
  /\ spc = "closed"
  /\ timer = "cleared"
  /\ \E i \in 1..Len(beats) :
       beats[i].pending \in {"nominatim", "overpass", "photon", "google"}
  /\ \E i \in 1..Len(beats) : beats[i].pending = "resolve"

\* the Source Adapters of route.ts:1084-1117, in the order they are awaited
AdapterNames == <<"nominatim", "overpass", "photon", "google">>

\* the adapters whose fetch is in flight: the tile loop is suspended in the
\* await of one adapter call and has not called the next one
AdaptersInFlight == {tpc} \cap Range(AdapterNames)

(* C32: the Source Adapters of a tile run concurrently. While the first
   adapter's fetch is pending the other adapters have been started too:
   Overpass and Photon always, Google Places when its credential is
   present. *)
C32_AdaptersFanOut ==
  (spc = "running" /\ tpc = "nominatim") =>
    {"nominatim", "overpass", "photon"} \cup
      (IF googleApiKey THEN {"google"} ELSE {}) \subseteq AdaptersInFlight

\* the provider's pages up to and including the first one that is not full
RECURSIVE UpToShortPage(_)
UpToShortPage(pages) ==
  IF pages = <<>> THEN <<>>
  ELSE IF Len(Head(pages)) < MAX_PAGE_SIZE THEN <<Head(pages)>>
       ELSE <<Head(pages)>> \o UpToShortPage(Tail(pages))

\* the number of full pages the provider returns before a short or empty one
FullPages == Cardinality({n \in 1..Len(provider) :
                            Len(provider[n]) = MAX_PAGE_SIZE})

RECURSIVE Flatten(_)
Flatten(pages) ==
  IF pages = <<>> THEN <<>> ELSE Head(pages) \o Flatten(Tail(pages))

(* C33: pagination. The requests are made at offsets 0, 50, 100, ...; when
   the provider returns k full pages followed by a short or empty page the
   call returns after exactly k + 1 requests with every record of these
   pages that has a non-empty identity, in order. *)
C33_PaginationStopsAtShortPage ==
  /\ \A i \in 1..Len(offsets) : offsets[i] = (i - 1) * MAX_PAGE_SIZE
  /\ pgc = "returned" =>
       /\ Len(offsets) = FullPages + 1
       /\ results = SelectIdentified(Flatten(UpToShortPage(provider)))
  /\ pgc = "loop" => Len(offsets) <= FullPages

\* the call has returned after two full pages and a short one, with records
\* kept and records without identity left out
C33_Witness ==
  /\ pgc = "returned"
  /\ FullPages = 2
  /\ Len(provider) = 3
  /\ offsets = <<0, MAX_PAGE_SIZE, 2 * MAX_PAGE_SIZE>>
  /\ results # <<>>
  /\ Len(results) < Len(Flatten(provider))

\* the number of business events among the first n events of the stream
BusinessEventsBefore(n) ==
  Cardinality({i \in 1..(n - 1) : stream[i].type = "business"})

\* the positions of the progress events and of the done event
CounterEvents ==
  {i \in 1..Len(stream) : stream[i].type \in {"progress", "done"}}

FoundOf(ev) == IF ev.type = "done" THEN ev.totalFound ELSE ev.businessesFound

(* C34: counter consistency. Every progress event and the done event carry
   the number of business events emitted before them in the stream, and,
   when they are emitted, the number of distinct identities the adapters
   have returned for the tiles processed so far; from one of these events
   to the next neither counter decreases. *)
C34_CountersConsistent ==
  /\ \A i \in CounterEvents : FoundOf(stream[i]) = BusinessEventsBefore(i)
  /\ \A i, j \in CounterEvents :
       i < j => /\ FoundOf(stream[i]) <= FoundOf(stream[j])
                /\ stream[i].uniqueBusinesses <= stream[j].uniqueBusinesses
  /\ (spc = "closed" /\ stream # <<>> /\ Last(stream).type = "done") =>
       Last(stream).uniqueBusinesses = Cardinality(returned)
  /\ (tpc = "nominatim" /\ Len(stream) > 1 /\
        stream[Len(stream) - 1].type = "progress") =>
       stream[Len(stream) - 1].uniqueBusinesses = Cardinality(returned)

\* a done event that follows a progress event with nothing found yet, with a
\* business event counted and every identity returned by some adapter
C34_Witness ==
  /\ spc = "closed"
  /\ stream # <<>> /\ Last(stream).type = "done"
  /\ Last(stream).totalFound >= 1
  /\ Last(stream).uniqueBusinesses = MaxIds
  /\ EventsOfType("progress") # {}
  /\ \E i \in EventsOfType("progress") : stream[i].businessesFound = 0

\* the tilesSearched values of the progress events, in stream order
ProgressPositions == EventsOfType("progress")

(* C35: tile accounting. The k-th progress event of a stream carries
   tilesSearched = startIndex + k, never more than totalTiles, and the done
   event carries startIndex plus the number of tiles this invocation has
   completed, i.e. the number of progress events before it. *)
C35_TileAccounting ==
  /\ \A i \in ProgressPositions :
       /\ stream[i].tilesSearched =
            startIndex + Cardinality({j \in ProgressPositions : j <= i})
       /\ stream[i].tilesSearched <= stream[i].totalTiles
  /\ \A i \in EventsOfType("done") :
       /\ stream[i].tilesSearched =
            startIndex + Cardinality(ProgressPositions)
       /\ stream[i].tilesSearched <= stream[i].totalTiles

\* a resumed stream (startIndex > 0) that has processed the rest of the tiles
\* and ended with done
C35_Witness ==
  /\ spc = "closed"
  /\ startIndex > 0
  /\ EventsOfType("done") # {}
  /\ ProgressPositions # {}
  /\ Last(stream).tilesSearched = tileCount

(* C36: nothing happens on a closed stream. Once the stream is closed no
   event is enqueued and businessesFound is not incremented, in particular
   not by a resolver handler that was still in flight when another handler
   of its tile failed and the stream ended with error. *)
C36_NothingAfterClose ==
  [][(spc = "closed" /\ spc' = "closed") =>
       (stream' = stream /\ businessesFound' = businessesFound)]_vars

\* the identities carried by the business events of the stream
BusinessIds == {stream[i].id : i \in EventsOfType("business")}

\* the stream is over and no handler is in flight any more
Quiescent == spc = "closed" /\ stream # <<>> /\ executing = {}

\* what the inputs alone determine: the identities the adapters returned for
\* the tiles processed whose resolution gives has-website = false
FalseAmongSeen == {id \in seenPlaceIds : outcomeOf[id] = "false"}

(* C37: interleaving independence. With the answer for every identity
   fixed, the identities carried by business events and the counters of
   done do not depend on the order in which the handlers complete: when the
   stream is over and every handler has finished, they are those of the
   identities returned by the adapters that resolve to false. *)
C37_OrderIndependent ==
  Quiescent =>
    /\ BusinessIds = FalseAmongSeen
    /\ Last(stream).type = "done" =>
         Last(stream).totalFound = Cardinality(FalseAmongSeen)

\* the places lookups gave no authoritative answer: none was made, or the
\* details record has no website
NoPlacesAnswer ==
  providerWebsite = "unasked" \/ WebsiteOrNull(providerWebsite) = NULL

(* C38: without the automation credential resolveHasWebsite makes no
   automation call. A business without a fresh cached value, a declared
   website or an authoritative places answer resolves to unknown right
   after step 4 (the placeholder, written when no entry was read), nothing
   is persisted after that, and the handler emits no business event for
   it. *)
C38_NoAutomationWithoutCredential ==
  ~minoApiKey =>
    /\ "mino" \notin Range(calls)
    /\ answers = <<>>
    /\ (rpc = "done" /\ ~CacheHit(cached) /\ ~DeclaredWebsite(business)
          /\ NoPlacesAnswer) =>
         /\ result = NULL
         /\ ~Emits(result)
         /\ "update" \notin Range(calls)
         /\ ("upsert" \in Range(calls)) <=> (cached = {})
         /\ calls # <<>> /\ Last(calls) \in {"get", "find", "details", "upsert"}

\* without the automation credential, a resolution asked the places provider,
\* got a record without website, wrote the placeholder and returned unknown
C38_Witness ==
  /\ ~minoApiKey
  /\ googleApiKey
  /\ rpc = "done"
  /\ result = NULL
  /\ "details" \in Range(calls)
  /\ Last(calls) = "upsert"

====
